---- MODULE Spec2Model ----
(***************************************************************************)
(* The agent behaviour core of the simulation: the Health Model            *)
(* (HealthComponent), the Entity Registry (EntityManager) and the Agent    *)
(* Behaviour State Machine with its Command Surface (NPCEntity).           *)
(*                                                                         *)
(* The specifications share the variables below.  Each one drives one      *)
(* part of the program and leaves the variables of the other parts at      *)
(* their initial values:                                                   *)
(*   SpecHealth     one HealthComponent under damage / heal / onDeath      *)
(*   SpecRegistry   the EntityManager under addEntity / removeEntity /     *)
(*                  update, the update pass one entity at a time           *)
(*   Spec           NPC agents under the Command Surface and ticks         *)
(*   SpecCooldown   two agents in combat over one attack interval          *)
(*   SpecTakeDamage one takeDamage among three agents                      *)
(*   SpecFade       the ticks that follow a death, under fair scheduling   *)
(*   SpecSay        overlapping calls of one agent's Say                   *)
(*   SpecQuery      the distance queries and the moves to the nearest or   *)
(*                  furthest entity                                        *)
(*   SpecIdlePair   two idle agents under ticks alone, fairly scheduled    *)
(*   SpecWander     the wander target drawn in the constructor             *)
(*   SpecResource   one ResourceEntity: destruction, respawn, cleanup      *)
(*   SpecIds        the ids given out by the Entity constructor            *)
(*   SpecExec       the execution of one interpreted command list          *)
(*   SpecArrive     the frames that follow one MoveTo                      *)
(*   SpecGather     one agent's wood gathering: start, stop, death         *)
(*   SpecGatherPair two agents gathering wood from the same tree           *)
(***************************************************************************)
EXTENDS Integers, Sequences, FiniteSets, TLC

VARIABLES
    \* ---- HealthComponent (one instance) ----
    maxHealth,          \* HealthComponent.maxHealth
    currentHealth,      \* HealthComponent.currentHealth
    onDeathCallbacks,   \* HealthComponent.onDeathCallbacks, a sequence of callback ids
    invoked,            \* history: how often each callback id has been invoked
    owed,               \* history: registrations of the id summed over the >0 -> 0 transitions
    healthOp,           \* history: the last HealthComponent call, <<name, amount, health before>>
    \* ---- EntityManager ----
    entities,           \* EntityManager.entities, the Map's keys in insertion order
    entitiesToAdd,      \* EntityManager.entitiesToAdd
    entitiesToRemove,   \* EntityManager.entitiesToRemove
    pc,                 \* position of EntityManager.update: "idle" or "updating"
    visited,            \* entities the running forEach pass has already updated
    cleanupCalls,       \* history: cleanup() calls made on each entity by the last tick
    stagedSinceCommit,  \* history: entities passed to addEntity since the last commit of additions
    addStagedBefore,    \* history: entities whose addition was staged when the running tick started
    removeStagedBefore, \* history: entities whose removal was staged when the running tick started
    removeAskedInTick,  \* history: entities whose removal was requested during the running pass
    \* ---- NPCEntity ----
    npc,                \* the NPC agents: state, transform.position, knockbackVelocity, health
    lastCall,           \* history: the last call, "update" or the command's name
    cmdCount,           \* history: number of Command Surface calls made
    simTime,            \* history: deltaTime accumulated by the ticks of SpecCooldown
    \* ---- NPCEntity.Say (one agent) ----
    isTalking,          \* state.isTalking
    dialogueTimeout,    \* state.dialogueTimeout: the timer handle last stored, or Undefined
    sayPc,              \* position of each call of Say: "idle", "awaiting" or "done"
    timers,             \* the timeouts set by Say that are pending: neither fired nor cleared
    \* ---- ResourceEntity (one instance) ----
    active,             \* ResourceEntity.active
    resourceHealth,     \* healthComponent.currentHealth of the resource
    respawnTime,        \* properties.respawnTime
    respawnTimeout,     \* ResourceEntity.respawnTimeout: the handle last stored, or Undefined
    respawnTimers,      \* the pending timeouts set by onDestroyed, <<handle, time left>>
    sinceZero,          \* history: time since the health last fell from a positive value to 0
    timeoutsSet,        \* history: number of timeouts onDestroyed has set
    cleanedUp,          \* history: cleanup() has run
    \* ---- Entity ----
    nextEntityId,       \* Entity.nextEntityId (static)
    created,            \* history: the ids of the entities constructed, in creation order
    \* ---- CommandInput.executeCommands (one command list) ----
    commands,           \* gptResult.commands
    issued,             \* history: indices of the commands issued to the agent, in order
    signalled,          \* history: indices whose completion signal has occurred
    execTimers,         \* the pending timers and intervals, <<kind, index>>
    \* ---- NPCEntity.startGatheringWood ----
    isGatheringWood,    \* NPCEntity.isGatheringWood of each agent
    loops               \* the calls of startGatheringWood that passed the guard, in call order

healthVars == <<maxHealth, currentHealth, onDeathCallbacks, invoked, owed, healthOp>>

registryVars == <<entities, entitiesToAdd, entitiesToRemove, pc, visited, cleanupCalls,
                  stagedSinceCommit, addStagedBefore, removeStagedBefore, removeAskedInTick>>

agentVars == <<npc, lastCall, cmdCount, simTime>>

sayVars == <<isTalking, dialogueTimeout, sayPc, timers>>

\* The ResourceEntity: its active flag, the currentHealth of its HealthComponent, its
\* properties.respawnTime, its respawnTimeout handle, the pending timeouts as pairs
\* <<handle, time left>>, the time since its health last fell to 0, the number of timeouts
\* set, and whether cleanup() has run.
resourceVars == <<active, resourceHealth, respawnTime, respawnTimeout, respawnTimers,
                  sinceZero, timeoutsSet, cleanedUp>>

\* Entity.nextEntityId and the ids given out, in creation order.
idVars == <<nextEntityId, created>>

\* executeCommands: the interpreted command list, the indices of the commands issued (in
\* the order issued), the indices whose completion signal has occurred, and the pending
\* timers and intervals as pairs <<kind, index>>.
execVars == <<commands, issued, signalled, execTimers>>

\* Wood gathering: the flag of each agent and the started loops, each a record of its agent,
\* the await it is suspended at and the iterations of the chopping loop it has begun.
gatherVars == <<isGatheringWood, loops>>

lateVars == <<resourceVars, idVars, execVars, gatherVars>>

vars == <<healthVars, registryVars, agentVars, sayVars, lateVars>>

Max(a, b) == IF a >= b THEN a ELSE b

Min(a, b) == IF a <= b THEN a ELSE b

Range(s) == {s[i] : i \in 1..Len(s)}

\* Number of occurrences of x in the sequence s.
Count(s, x) == Cardinality({i \in 1..Len(s) : s[i] = x})

\* The value of an absent optional (undefined); entity and callback ids start at 1.
Undefined == 0

(***************************************************************************)
(* Bounds                                                                  *)
(***************************************************************************)
MaxHealthBound == 3     \* maxHealth ranges over 1..MaxHealthBound
MaxAmount == 2          \* damage and heal amounts range over 0..MaxAmount
NumCallbacks == 1       \* distinct death callbacks
MaxCallbacks == 2       \* length of onDeathCallbacks
MaxInvoked == 2         \* invocations recorded per callback
NumEntities == 3        \* entity ids 1..NumEntities
MaxStaged == 2          \* length of entitiesToAdd and of entitiesToRemove
MaxSayCalls == 3        \* calls of Say made on the agent

CallbackIds == 1..NumCallbacks

EntityIds == 1..NumEntities

\* The calls of Say; a call's id also names the timeout it sets.
SayCalls == 1..MaxSayCalls

(***************************************************************************)
(* HealthComponent                                                         *)
(***************************************************************************)

\* The value damage(amount) leaves in currentHealth.
DamagedNoFloor(cur, amount) == cur - amount

Damaged(cur, amount) == Max(0, cur - amount)

\* The value heal(amount) leaves in currentHealth.
HealedNoCap(cur, max, amount) == cur + amount

Healed(cur, max, amount) == Min(max, cur + amount)

\* damage(amount) invokes the death callbacks when it leaves currentHealth at 0.
FiresOnDeath(before, after) == after = 0

HealthInit ==
    /\ maxHealth \in 1..MaxHealthBound
    /\ currentHealth = maxHealth
    /\ onDeathCallbacks = <<>>
    /\ invoked = [c \in CallbackIds |-> 0]
    /\ owed = [c \in CallbackIds |-> 0]
    /\ healthOp = <<"new", 0, 0>>

\* HealthComponent.onDeath(callback)
OnDeath(c) ==
    /\ Len(onDeathCallbacks) < MaxCallbacks
    /\ onDeathCallbacks' = Append(onDeathCallbacks, c)
    /\ healthOp' = <<"onDeath", 0, currentHealth>>
    /\ UNCHANGED <<maxHealth, currentHealth, invoked, owed>>

\* HealthComponent.damage(amount)
HealthDamage(amount) ==
    LET after == Damaged(currentHealth, amount) IN
    /\ \A c \in CallbackIds : invoked[c] + Count(onDeathCallbacks, c) <= MaxInvoked
    /\ currentHealth' = after
    /\ invoked' = [c \in CallbackIds |->
                     IF FiresOnDeath(currentHealth, after)
                     THEN invoked[c] + Count(onDeathCallbacks, c)
                     ELSE invoked[c]]
    /\ owed' = [c \in CallbackIds |->
                  IF currentHealth > 0 /\ after = 0
                  THEN owed[c] + Count(onDeathCallbacks, c)
                  ELSE owed[c]]
    /\ healthOp' = <<"damage", amount, currentHealth>>
    /\ UNCHANGED <<maxHealth, onDeathCallbacks>>

\* HealthComponent.heal(amount)
HealthHeal(amount) ==
    /\ currentHealth' = Healed(currentHealth, maxHealth, amount)
    /\ healthOp' = <<"heal", amount, currentHealth>>
    /\ UNCHANGED <<maxHealth, onDeathCallbacks, invoked, owed>>

\* HealthComponent.cleanup()
HealthCleanup ==
    /\ onDeathCallbacks # <<>>
    /\ onDeathCallbacks' = <<>>
    /\ healthOp' = <<"cleanup", 0, currentHealth>>
    /\ UNCHANGED <<maxHealth, currentHealth, invoked, owed>>

NextHealth ==
    \/ \E c \in CallbackIds : OnDeath(c) /\ UNCHANGED <<registryVars, agentVars, sayVars, lateVars>>
    \/ \E amount \in 0..MaxAmount : HealthDamage(amount) /\ UNCHANGED <<registryVars, agentVars, sayVars, lateVars>>
    \/ \E amount \in 0..MaxAmount : HealthHeal(amount) /\ UNCHANGED <<registryVars, agentVars, sayVars, lateVars>>
    \/ HealthCleanup /\ UNCHANGED <<registryVars, agentVars, sayVars, lateVars>>

(***************************************************************************)
(* EntityManager                                                           *)
(***************************************************************************)

\* The sequence s without the entries equal to x (Map.delete keeps the order of the rest).
Without(s, x) == SelectSeq(s, LAMBDA y : y # x)

\* Map.set(id, entity): a new key goes last, an existing key keeps its place.
MapSet(s, x) == IF x \in Range(s) THEN s ELSE Append(s, x)

\* EntityManager.getEntity(id)
GetEntity(id) == IF id \in Range(entities) THEN id ELSE Undefined

\* EntityManager.getAllEntities()
GetAllEntities == Range(entities)

\* The while loop over entitiesToAdd: pop() takes the last entry first.
RECURSIVE ProcessAdditions(_, _)
ProcessAdditions(map, toAdd) ==
    IF toAdd = <<>> THEN map
    ELSE ProcessAdditions(MapSet(map, toAdd[Len(toAdd)]), SubSeq(toAdd, 1, Len(toAdd) - 1))

\* The while loop over entitiesToRemove: the entities left in the map.
RECURSIVE ProcessRemovals(_, _)
ProcessRemovals(map, toRemove) ==
    IF toRemove = <<>> THEN map
    ELSE ProcessRemovals(Without(map, toRemove[Len(toRemove)]),
                         SubSeq(toRemove, 1, Len(toRemove) - 1))

RegistryInit ==
    /\ entities = <<>>
    /\ entitiesToAdd = <<>>
    /\ entitiesToRemove = <<>>
    /\ pc = "idle"
    /\ visited = {}
    /\ cleanupCalls = [e \in EntityIds |-> 0]
    /\ stagedSinceCommit = {}
    /\ addStagedBefore = {}
    /\ removeStagedBefore = {}
    /\ removeAskedInTick = {}

\* The entities a caller may hand to addEntity: objects not in the registry yet.
Addable == {e \in EntityIds : e \notin Range(entities) /\ e \notin Range(entitiesToAdd)}

\* EntityManager.addEntity(entity): the fields it writes.
addEntityEager(e) ==
    /\ entities' = MapSet(entities, e)
    /\ UNCHANGED entitiesToAdd

addEntity(e) ==
    /\ entitiesToAdd' = Append(entitiesToAdd, e)
    /\ UNCHANGED entities

\* EntityManager.removeEntity(entity): the fields it writes.
removeEntityEager(e) ==
    /\ entities' = Without(entities, e)
    /\ UNCHANGED entitiesToRemove

removeEntity(e) ==
    /\ entitiesToRemove' = Append(entitiesToRemove, e)
    /\ UNCHANGED entities

\* addEntity called between two ticks (GameWorld, ResourceManager.createResource).
AddEntity(e) ==
    /\ pc = "idle"
    /\ e \in Addable
    /\ Len(entitiesToAdd) < MaxStaged
    /\ addEntity(e)
    /\ stagedSinceCommit' = stagedSinceCommit \cup {e}
    /\ UNCHANGED <<entitiesToRemove, pc, visited, cleanupCalls,
                   addStagedBefore, removeStagedBefore, removeAskedInTick>>

\* removeEntity called between two ticks (ResourceManager.removeResource).
RemoveEntity(e) ==
    /\ pc = "idle"
    /\ Len(entitiesToRemove) < MaxStaged
    /\ removeEntity(e)
    /\ UNCHANGED <<entitiesToAdd, pc, visited, cleanupCalls,
                   stagedSinceCommit, addStagedBefore, removeStagedBefore, removeAskedInTick>>

\* The fields the start of EntityManager.update writes.
commitAll ==
    /\ entities' = ProcessRemovals(ProcessAdditions(entities, entitiesToAdd), entitiesToRemove)
    /\ entitiesToAdd' = <<>>
    /\ entitiesToRemove' = <<>>

commitAdditions ==
    /\ entities' = ProcessAdditions(entities, entitiesToAdd)
    /\ entitiesToAdd' = <<>>
    /\ UNCHANGED entitiesToRemove

\* EntityManager.update, first part: the additions are processed and the forEach pass starts.
UpdateBegin ==
    /\ pc = "idle"
    /\ commitAdditions
    /\ pc' = "updating"
    /\ visited' = {}
    /\ cleanupCalls' = [e \in EntityIds |-> 0]
    /\ stagedSinceCommit' = {}
    /\ addStagedBefore' = Range(entitiesToAdd)
    /\ removeStagedBefore' = Range(entitiesToRemove)
    /\ removeAskedInTick' = {}

\* The entity the forEach pass visits next: the first key of the live Map not visited yet.
NextToUpdate ==
    LET left == SelectSeq(entities, LAMBDA e : e \notin visited) IN
    IF left = <<>> THEN Undefined ELSE left[1]

\* EntityManager.update, the forEach pass: entity.update(deltaTime) of one entity.  The
\* update stages nothing, or requests the entity's own removal (NPCEntity.update once the
\* fade is over), or stages the addition of another entity.
UpdateEntity(effect, other) ==
    LET e == NextToUpdate IN
    /\ pc = "updating"
    /\ e # Undefined
    /\ visited' = visited \cup {e}
    /\ \/ /\ effect = "none"
          /\ UNCHANGED <<entities, entitiesToAdd, entitiesToRemove, stagedSinceCommit,
                         removeAskedInTick>>
       \/ /\ effect = "removeSelf"
          /\ Len(entitiesToRemove) < MaxStaged
          /\ removeEntity(e)
          /\ removeAskedInTick' = removeAskedInTick \cup {e}
          /\ UNCHANGED <<entitiesToAdd, stagedSinceCommit>>
       \/ /\ effect = "add"
          /\ other \in Addable
          /\ Len(entitiesToAdd) < MaxStaged
          /\ addEntity(other)
          /\ stagedSinceCommit' = stagedSinceCommit \cup {other}
          /\ UNCHANGED <<entitiesToRemove, removeAskedInTick>>
    /\ UNCHANGED <<pc, cleanupCalls, addStagedBefore, removeStagedBefore>>

\* The entities left in the Map once EntityManager.update has processed the removals.
AfterRemovalsDeferred == entities

AfterRemovals == ProcessRemovals(entities, entitiesToRemove)

\* EntityManager.update, last part: the pass is over, the removals are processed
\* (cleanup() and Map.delete for every staged entry).
UpdateEnd ==
    /\ pc = "updating"
    /\ NextToUpdate = Undefined
    /\ entities' = AfterRemovals
    /\ cleanupCalls' = [e \in EntityIds |-> Count(entitiesToRemove, e)]
    /\ entitiesToRemove' = <<>>
    /\ pc' = "idle"
    /\ visited' = {}
    /\ addStagedBefore' = {}
    /\ removeStagedBefore' = {}
    /\ removeAskedInTick' = {}
    /\ UNCHANGED <<entitiesToAdd, stagedSinceCommit>>

NextRegistry ==
    \/ \E e \in EntityIds : AddEntity(e) /\ UNCHANGED <<healthVars, agentVars, sayVars, lateVars>>
    \/ \E e \in EntityIds : RemoveEntity(e) /\ UNCHANGED <<healthVars, agentVars, sayVars, lateVars>>
    \/ UpdateBegin /\ UNCHANGED <<healthVars, agentVars, sayVars, lateVars>>
    \/ \E effect \in {"none", "removeSelf", "add"}, other \in EntityIds :
          UpdateEntity(effect, other) /\ UNCHANGED <<healthVars, agentVars, sayVars, lateVars>>
    \/ UpdateEnd /\ UNCHANGED <<healthVars, agentVars, sayVars, lateVars>>

(***************************************************************************)
(* NPCEntity: the Agent Behaviour State Machine and its Command Surface    *)
(*                                                                         *)
(* Lengths are in hundredths of a world unit, times in milliseconds and    *)
(* speeds in hundredths of a world unit per second.  The agents live on    *)
(* the x axis (z = 0) with the height y above the ground plane; at the     *)
(* end of an update the position is kept to the nearest world unit.        *)
(***************************************************************************)

\* NPCEntity.COLLISION_RADIUS (0.75)
COLLISION_RADIUS == 75

\* DEFAULT_COMBAT_STATS[VILLAGER]
Damage == 10

AttackRange == 150

AttackInterval == 2000

KnockbackForce == 50

WalkSpeed == 200

RunSpeed == 400

\* state.followDistance (2)
FollowDistance == 200

\* The upward part of the knockback impulse, (0, 2, 0).
KnockbackLift == 200

\* Gravity of the knockback integration (9.8 per second squared).
Gravity == 980

\* Combat ends when the target is farther away than this (15).
DisengageDistance == 1500

\* A commanded move has arrived within this distance (0.1).
ArrivalEpsilon == 10

\* The hit flag is reset after this time (0.5 s).
HitRecovery == 500

\* Death: the fall-over is complete after 1 s and the fade lasts from 7 s to 10 s.
FallDuration == 1000

FadeStart == 7000

FadeDuration == 3000

\* config.maxHealth of the agents
AgentMaxHealth == 20

\* The agents stay within 0..MaxX on the x axis.
MaxX == 1800

\* Command Surface calls made from outside the tick.
MaxCommands == 2

\* The NPC agents; their entity ids.
Agents == {1, 2}

\* The agents the Command Surface is called on from outside the tick; the other agent acts
\* in its updates only.
Commanded == {1}

\* The positions the second agent is created at: near the first, and farther from it than
\* the disengage distance.
SpawnPositions == {400, 1800}

\* deltaTime of a registry tick.
DeltaTimes == {500}

\* The positions MoveTo is called with.
MovePositions == {100, 400}

\* The amounts takeDamage is called with from outside a tick.
DamageAmounts == {10, 20}

Abs(v) == IF v < 0 THEN -v ELSE v

\* Vector3.normalize() on the x axis: the zero vector stays zero.
Sign(v) == IF v > 0 THEN 1 ELSE IF v < 0 THEN -1 ELSE 0

\* The length of the vector (dx, dy), rounded down.
Length(dx, dy) ==
    CHOOSE r \in Max(Abs(dx), Abs(dy))..(Abs(dx) + Abs(dy)) :
        r * r <= dx * dx + dy * dy /\ (r + 1) * (r + 1) > dx * dx + dy * dy

\* Vector3.distanceTo between (x1, y1) and (x2, y2).
Distance(x1, y1, x2, y2) ==
    Length(x1 - x2, y1 - y2)

\* The position kept to the nearest world unit.
Quantize(v) == ((v + 50) \div 100) * 100

\* v * deltaTime, deltaTime in milliseconds.
Scaled(v, dt) == (v * dt) \div 1000

\* The state of a new NPCEntity at x: the state object, the transform, the knockback
\* velocity and the health.  The constructor's tryStartWandering may have started a wander.
NewNPC(x, wander) ==
    [ x |-> x, y |-> 0, kvx |-> 0, kvy |-> 0,
      health |-> AgentMaxHealth,
      isMoving |-> wander # <<>>, isRunning |-> FALSE,
      targetPosition |-> wander, targetEntity |-> Undefined,
      isHit |-> FALSE, hitRecoveryTime |-> 0,
      inCombat |-> FALSE, combatTarget |-> Undefined,
      sinceAttack |-> AttackInterval,
      isAttacking |-> FALSE, attackAnimationTime |-> 0,
      isDead |-> FALSE, deathTime |-> 0, deathAnimationComplete |-> FALSE,
      isFollowing |-> FALSE, followTarget |-> Undefined,
      isWandering |-> wander # <<>>, wanderTarget |-> wander ]

\* NPCEntity.MoveTo(target, shouldRun): target is a position <<x>> or an entity id.
MoveTo(w, a, pos, ent, shouldRun) ==
    [w EXCEPT ![a].isMoving = TRUE,
              ![a].isRunning = shouldRun,
              ![a].targetPosition = IF ent = Undefined THEN pos ELSE <<w[ent].x>>,
              ![a].targetEntity = ent]

\* NPCEntity.stopFollowing()
stopFollowing(w, a) ==
    IF w[a].isFollowing
    THEN [w EXCEPT ![a].isFollowing = FALSE,
                   ![a].followTarget = Undefined,
                   ![a].isMoving = FALSE,
                   ![a].targetPosition = <<>>,
                   ![a].targetEntity = Undefined]
    ELSE w

StopKeepsFollowing(w, a) ==
    [w EXCEPT ![a].isMoving = FALSE,
              ![a].isRunning = FALSE,
              ![a].targetPosition = <<>>,
              ![a].targetEntity = Undefined,
              ![a].inCombat = FALSE,
              ![a].combatTarget = Undefined,
              ![a].isWandering = FALSE,
              ![a].wanderTarget = <<>>]

StopFirstBehaviour(w, a) ==
    IF w[a].inCombat
    THEN [w EXCEPT ![a].inCombat = FALSE, ![a].combatTarget = Undefined]
    ELSE IF w[a].isFollowing THEN stopFollowing(w, a)
    ELSE StopKeepsFollowing(w, a)

\* NPCEntity.Stop()
Stop(w, a) ==
    stopFollowing([w EXCEPT ![a].isMoving = FALSE,
                            ![a].isRunning = FALSE,
                            ![a].targetPosition = <<>>,
                            ![a].targetEntity = Undefined,
                            ![a].inCombat = FALSE,
                            ![a].combatTarget = Undefined,
                            ![a].isWandering = FALSE,
                            ![a].wanderTarget = <<>>], a)

\* An engagement that raises the flag but records no target.
engageWithoutTarget(w, a, target) ==
    [w EXCEPT ![a].inCombat = TRUE,
              ![a].isMoving = TRUE,
              ![a].targetEntity = target,
              ![a].targetPosition = <<w[target].x>>]

\* NPCEntity.engageInCombat(target)
engageInCombat(w, a, target) ==
    [w EXCEPT ![a].inCombat = TRUE,
              ![a].combatTarget = target,
              ![a].isMoving = TRUE,
              ![a].targetEntity = target,
              ![a].targetPosition = <<w[target].x>>]

\* NPCEntity.startFollowing(target), up to its await of Say
startFollowing(w, a, target) ==
    [stopFollowing(w, a) EXCEPT ![a].isFollowing = TRUE,
                                ![a].followTarget = target,
                                ![a].isMoving = TRUE]

\* A death that clears the behaviour but does not mark the agent dead.
dieUnmarked(w, a) ==
    [w EXCEPT ![a].deathTime = 0,
              ![a].isMoving = FALSE,
              ![a].inCombat = FALSE,
              ![a].combatTarget = Undefined,
              ![a].targetEntity = Undefined,
              ![a].targetPosition = <<>>]

\* NPCEntity.die()
die(w, a) ==
    [w EXCEPT ![a].isDead = TRUE,
              ![a].deathTime = 0,
              ![a].isMoving = FALSE,
              ![a].inCombat = FALSE,
              ![a].combatTarget = Undefined,
              ![a].targetEntity = Undefined,
              ![a].targetPosition = <<>>]

RetaliatesAlways(w, a, attacker) == TRUE

\* NPCEntity.takeDamage: the test for engaging the attacker, no combat target or a combat
\* target with more health than the attacker.
Retaliates(w, a, attacker) ==
    \/ w[a].combatTarget = Undefined
    \/ w[w[a].combatTarget].health > w[attacker].health

\* NPCEntity.takeDamage(damage, attacker): attacker is an NPC's id or Undefined.
takeDamage(w, a, amount, attacker) ==
    LET w1 == [w EXCEPT ![a].health = Damaged(w[a].health, amount)] IN
    IF w1[a].health <= 0 /\ ~w1[a].isDead THEN die(w1, a)
    ELSE
        LET w2 == [w1 EXCEPT ![a].isHit = TRUE, ![a].hitRecoveryTime = 0] IN
        IF attacker = Undefined THEN w2
        ELSE
            LET w3 == [w2 EXCEPT
                         ![a].kvx = Sign(w2[a].x - w2[attacker].x) * KnockbackForce * 5,
                         ![a].kvy = KnockbackLift] IN
            IF Retaliates(w3, a, attacker)
            THEN engageInCombat(w3, a, attacker)
            ELSE w3

\* NPCEntity.attack: the cooldown test, now - lastAttackTime < attackInterval.
NeverOnCooldown(s) == FALSE

OnCooldown(s) == s.sinceAttack < AttackInterval

\* An attack that lands from any distance.
attackAtAnyRange(w, a, target) ==
    IF OnCooldown(w[a]) THEN w
    ELSE takeDamage([w EXCEPT ![a].isAttacking = TRUE,
                              ![a].sinceAttack = 0,
                              ![a].attackAnimationTime = 0],
                    target, Damage, a)

\* NPCEntity.attack(target)
attack(w, a, target) ==
    IF OnCooldown(w[a]) THEN w
    ELSE IF Distance(w[a].x, w[a].y, w[target].x, w[target].y) <= AttackRange
         THEN takeDamage([w EXCEPT ![a].isAttacking = TRUE,
                                   ![a].sinceAttack = 0,
                                   ![a].attackAnimationTime = 0],
                         target, Damage, a)
         ELSE w

\* NPCEntity.checkCollisionWithNPCs(): the correction along x, over the committed NPCs.
RECURSIVE CollisionSum(_, _, _)
CollisionSum(w, a, others) ==
    IF others = {} THEN 0
    ELSE LET o == CHOOSE o \in others : TRUE
             d == Distance(w[a].x, w[a].y, w[o].x, w[o].y)
             push == IF d < COLLISION_RADIUS * 2
                     THEN Sign(w[a].x - w[o].x) * (((COLLISION_RADIUS * 2 - d) * 5) \div 10)
                     ELSE 0
         IN push + CollisionSum(w, a, others \ {o})

checkCollisionWithNPCs(w, a, committed) == CollisionSum(w, a, (committed \cap Agents) \ {a})

KnockbackStepUndamped(w, a, dt) ==
    LET s == w[a] IN
    IF s.kvx = 0 /\ s.kvy = 0 THEN w
    ELSE
        LET vy == s.kvy - Scaled(Gravity, dt)
            y1 == s.y + Scaled(vy, dt)
        IN IF y1 < 0
           THEN [w EXCEPT ![a].x = s.x + Scaled(s.kvx, dt), ![a].y = 0,
                          ![a].kvx = 0, ![a].kvy = 0]
           ELSE [w EXCEPT ![a].x = s.x + Scaled(s.kvx, dt), ![a].y = y1, ![a].kvy = vy]

\* NPCEntity.update: the knockback integration.
KnockbackStep(w, a, dt) ==
    LET s == w[a] IN
    IF s.kvx = 0 /\ s.kvy = 0 THEN w
    ELSE
        LET vy == s.kvy - Scaled(Gravity, dt)
            x1 == s.x + Scaled(s.kvx, dt)
            y1 == s.y + Scaled(vy, dt)
        IN IF y1 < 0
           THEN [w EXCEPT ![a].x = x1, ![a].y = 0, ![a].kvx = 0, ![a].kvy = 0]
           ELSE [w EXCEPT ![a].x = x1, ![a].y = y1,
                          ![a].kvx = (s.kvx * 95) \div 100, ![a].kvy = vy]

\* NPCEntity.update: the hit feedback.
HitStep(w, a, dt) ==
    LET s == w[a] IN
    IF ~s.isHit THEN w
    ELSE IF s.hitRecoveryTime + dt >= HitRecovery
         THEN [w EXCEPT ![a].isHit = FALSE, ![a].hitRecoveryTime = 0]
         ELSE [w EXCEPT ![a].hitRecoveryTime = s.hitRecoveryTime + dt]

\* The attack animation lasts this long (0.5 s).
AttackAnimationDuration == 500

\* NPCEntity.update: the attack animation.
AttackAnimationStep(w, a, dt) ==
    LET s == w[a] IN
    IF ~s.isAttacking THEN w
    ELSE IF s.attackAnimationTime + dt <= AttackAnimationDuration
         THEN [w EXCEPT ![a].attackAnimationTime = s.attackAnimationTime + dt]
         ELSE [w EXCEPT ![a].isAttacking = FALSE, ![a].attackAnimationTime = 0]

\* NPCEntity.update: the following behaviour.
FollowStep(w, a, dt, committed) ==
    LET s == w[a] IN
    IF ~(s.isFollowing /\ s.followTarget # Undefined) THEN w
    ELSE
        LET t == w[s.followTarget]
            distance == Distance(s.x, s.y, t.x, t.y)
            targetForward == Sign(t.x - s.x)
            followPos == t.x - targetForward * FollowDistance
        IN IF distance > FollowDistance + 50
           THEN LET w1 == [w EXCEPT ![a].x = s.x + Sign(followPos - s.x) * Scaled(WalkSpeed, dt)]
                IN [w1 EXCEPT ![a].x = w1[a].x + checkCollisionWithNPCs(w1, a, committed)]
           ELSE w

CombatOverWhenDead(targetHealth, distance) == targetHealth <= 0

\* NPCEntity.update: the test that ends combat, on the target's health after the attack
\* and the distance measured at the start of the combat step.
CombatOver(targetHealth, distance) ==
    targetHealth <= 0 \/ distance > DisengageDistance

\* NPCEntity.update, combat behaviour: the approach or the circling of the target and the
\* collision correction; the world in which the attack is then attempted.
CombatMove(w, a, dt, side, committed) ==
    LET s == w[a]
        t == w[s.combatTarget]
        distance == Distance(s.x, s.y, t.x, t.y)
        optimalDistance == (AttackRange * 8) \div 10
        moved == IF distance > (AttackRange * 12) \div 10
                 THEN s.x + Sign(t.x - s.x) * Scaled(RunSpeed, dt)
                 ELSE s.x + Sign(t.x + side * optimalDistance - s.x) * Scaled(WalkSpeed, dt)
        w1 == [w EXCEPT ![a].x = moved]
    IN [w1 EXCEPT ![a].x = moved + (checkCollisionWithNPCs(w1, a, committed) * 3) \div 10]

\* NPCEntity.update: the combat behaviour.  side is the side of the target the circle
\* point lies on (the cosine of circleAngle on the x axis).
CombatStep(w, a, dt, side, committed) ==
    LET s == w[a] IN
    IF ~(s.inCombat /\ s.combatTarget # Undefined) THEN w
    ELSE
        LET target == s.combatTarget
            t == w[target]
            distance == Distance(s.x, s.y, t.x, t.y)
            w2 == CombatMove(w, a, dt, side, committed)
            w3 == IF distance <= AttackRange THEN attack(w2, a, target) ELSE w2
        IN IF CombatOver(w3[target].health, distance)
           THEN [w3 EXCEPT ![a].inCombat = FALSE, ![a].combatTarget = Undefined]
           ELSE w3

\* NPCEntity.tryStartWandering(): chance stands for the elapsed wander interval and the
\* draw of WANDER_CHANCE, target for the point drawn within WANDER_RADIUS.
tryStartWandering(w, a, chance, target) ==
    LET s == w[a] IN
    IF ~s.isWandering /\ ~s.isMoving /\ ~s.inCombat /\ ~s.isFollowing /\ ~s.isAttacking
       /\ chance
    THEN MoveTo([w EXCEPT ![a].isWandering = TRUE, ![a].wanderTarget = target],
                a, target, Undefined, FALSE)
    ELSE w

\* NPCEntity.update: the commanded movement and the wandering.
MoveStep(w, a, dt, chance, wanderTo, committed) ==
    IF ~(w[a].isMoving /\ ~w[a].inCombat /\ ~w[a].isFollowing) THEN w
    ELSE
        LET w1 == tryStartWandering(w, a, chance, wanderTo)
            w2 == IF /\ w1[a].isWandering
                     /\ w1[a].wanderTarget # <<>>
                     /\ Distance(w1[a].x, w1[a].y, w1[a].wanderTarget[1], 0) < ArrivalEpsilon
                  THEN Stop([w1 EXCEPT ![a].isWandering = FALSE, ![a].wanderTarget = <<>>], a)
                  ELSE w1
            w3 == IF w2[a].targetEntity # Undefined
                  THEN [w2 EXCEPT ![a].targetPosition = <<w2[w2[a].targetEntity].x>>]
                  ELSE w2
            s == w3[a]
        IN IF s.targetPosition = <<>> THEN w3
           ELSE IF Distance(s.x, s.y, s.targetPosition[1], 0) > ArrivalEpsilon
                THEN LET speed == IF s.isRunning THEN RunSpeed ELSE WalkSpeed
                         w4 == [w3 EXCEPT
                                  ![a].x = s.x + Sign(s.targetPosition[1] - s.x) * Scaled(speed, dt)]
                     IN [w4 EXCEPT ![a].x = w4[a].x + checkCollisionWithNPCs(w4, a, committed)]
                ELSE [w3 EXCEPT ![a].isMoving = FALSE,
                                ![a].isRunning = FALSE,
                                ![a].targetPosition = <<>>,
                                ![a].targetEntity = Undefined]

\* NPCEntity.update: the death animation and the fade; the agent asks for its removal
\* once the fade is complete.
DeathStep(w, a, dt) ==
    LET s == w[a]
        deathTime == s.deathTime + dt
    IN [w EXCEPT ![a].deathTime = deathTime,
                 ![a].deathAnimationComplete =
                     s.deathAnimationComplete \/ Min(deathTime, FallDuration) >= FallDuration]

FadeCompleteAtStart(s) == s.deathTime > FadeStart

FadeComplete(s) == s.deathTime > FadeStart /\ s.deathTime - FadeStart >= FadeDuration

\* NPCEntity.update skips the behaviour of a dead agent.
ProcessesAlways(s) == TRUE

ProcessesBehaviour(s) == ~s.isDead

\* NPCEntity.update of a living agent, up to the combat behaviour: knockback, hit
\* recovery, attack animation and the following behaviour.
BeforeFollowStep(w, a, dt) ==
    AttackAnimationStep(HitStep(KnockbackStep(w, a, dt), a, dt), a, dt)

BeforeCombatStep(w, a, dt, committed) ==
    FollowStep(BeforeFollowStep(w, a, dt), a, dt, committed)

\* NPCEntity.update(deltaTime): the world after the update of agent a.
update(w, a, dt, side, committed) ==
    LET w0 == IF w[a].isDead THEN DeathStep(w, a, dt) ELSE w IN
    IF w0[a].isDead /\ FadeComplete(w0[a]) THEN w0
    ELSE IF ~ProcessesBehaviour(w0[a]) THEN w0
    ELSE
        LET w3 == BeforeCombatStep(w0, a, dt, committed)
            w4 == CombatStep(w3, a, dt, side, committed)
            w5 == MoveStep(w4, a, dt, TRUE, <<w4[a].x>>, committed)
        IN [w5 EXCEPT ![a].x = Quantize(w5[a].x)]

\* NPCEntity.update has asked the registry to remove the agent: s is the agent after its
\* update.
RequestsRemoval(s) == s.isDead /\ FadeComplete(s)

RECURSIVE UpdateAll(_, _, _, _, _)
\* EntityManager.update: entities.forEach(update), over the ids in todo.
UpdateAll(w, todo, dt, side, committed) ==
    IF todo = <<>> THEN w
    ELSE UpdateAll(update(w, Head(todo), dt, side, committed),
                   Tail(todo), dt, side, committed)

\* The removals the updates of a pass over todo have staged, in order; w is the world after
\* the pass.  (An agent killed during the pass has a deathTime below the start of the fade.)
RemovalRequests(w, todo) == SelectSeq(todo, LAMBDA a : RequestsRemoval(w[a]))

\* Date.now() has advanced by dt: the time since each agent's last attack.
Elapsed(w, dt) ==
    [a \in Agents |-> [w[a] EXCEPT !.sinceAttack = Min(AttackInterval, w[a].sinceAttack + dt)]]

\* The agents of the specifications that do not drive them.
AgentsParked ==
    /\ npc = [a \in Agents |-> NewNPC(200, <<>>)]
    /\ lastCall = "new"
    /\ cmdCount = 0
    /\ simTime = 0

AgentInit ==
    /\ \E wander \in {<<>>, <<100>>}, x2 \in SpawnPositions :
           npc = [a \in Agents |-> IF a = 1 THEN NewNPC(200, wander) ELSE NewNPC(x2, <<>>)]
    /\ lastCall = "new"
    /\ cmdCount = 0
    /\ simTime = 0

\* A call of the Command Surface from outside the tick.
Called(name, a) ==
    /\ cmdCount < MaxCommands
    /\ cmdCount' = cmdCount + 1
    /\ lastCall' = name
    /\ UNCHANGED <<healthVars, registryVars, simTime, sayVars, lateVars>>

CmdMoveTo(a, pos, ent, shouldRun) ==
    /\ (ent = Undefined) # (pos = <<>>)
    /\ ent # a
    /\ npc' = MoveTo(npc, a, pos, ent, shouldRun)
    /\ Called("MoveTo", a)

CmdStop(a) ==
    /\ npc' = Stop(npc, a)
    /\ Called("Stop", a)

CmdEngageInCombat(a, target) ==
    /\ target # a
    /\ npc' = engageInCombat(npc, a, target)
    /\ Called("engageInCombat", a)

CmdStartFollowing(a, target) ==
    /\ target # a
    /\ npc' = startFollowing(npc, a, target)
    /\ Called("startFollowing", a)

CmdStopFollowing(a) ==
    /\ npc' = stopFollowing(npc, a)
    /\ Called("stopFollowing", a)

CmdTakeDamage(a, amount, attacker) ==
    /\ attacker # a
    /\ npc' = takeDamage(npc, a, amount, attacker)
    /\ Called("takeDamage", a)

\* EntityManager.update(deltaTime) with NPCs committed: every committed entity is updated,
\* then the removals the updates staged are applied.
Tick(dt, side) ==
    LET committed == Range(entities)
        w0 == Elapsed(npc, dt)
        w1 == UpdateAll(w0, entities, dt, side, committed)
    IN /\ pc = "idle"
       /\ \A a \in Agents : w1[a].x \in 0..MaxX
       /\ npc' = w1
       /\ entities' = ProcessRemovals(entities,
                          entitiesToRemove \o RemovalRequests(w1, entities))
       /\ entitiesToRemove' = <<>>
       /\ lastCall' = "update"
       /\ UNCHANGED <<healthVars, sayVars, lateVars, entitiesToAdd, pc, visited, cleanupCalls, stagedSinceCommit,
                      addStagedBefore, removeStagedBefore, removeAskedInTick, cmdCount>>

Next ==
    \/ \E a \in Commanded, pos \in {<<p>> : p \in MovePositions}, shouldRun \in BOOLEAN :
          CmdMoveTo(a, pos, Undefined, shouldRun)
    \/ \E a \in Commanded, ent \in Agents : CmdMoveTo(a, <<>>, ent, FALSE)
    \/ \E a \in Commanded : CmdStop(a)
    \/ \E a \in Commanded, target \in Agents : CmdEngageInCombat(a, target)
    \/ \E a \in Commanded, target \in Agents : CmdStartFollowing(a, target)
    \/ \E a \in Commanded : CmdStopFollowing(a)
    \/ \E a \in Commanded, amount \in DamageAmounts, attacker \in Agents \cup {Undefined} :
          CmdTakeDamage(a, amount, attacker)
    \/ \E dt \in DeltaTimes, side \in {-1, 1} : Tick(dt, side) /\ UNCHANGED simTime


(***************************************************************************)
(* NPCEntity.Say                                                           *)
(***************************************************************************)

\* No call of Say has been made.
SayParked ==
    /\ isTalking = FALSE
    /\ dialogueTimeout = Undefined
    /\ sayPc = [c \in SayCalls |-> "idle"]
    /\ timers = {}

\* No resource is being looked at: a resource as constructed, without respawn.
ResourceParked ==
    /\ active = TRUE /\ resourceHealth = 1 /\ respawnTime = 0
    /\ respawnTimeout = Undefined /\ respawnTimers = {}
    /\ sinceZero = 0 /\ timeoutsSet = 0 /\ cleanedUp = FALSE

\* No entity has been constructed.
IdsParked == nextEntityId = 1 /\ created = <<>>

\* No command list is being executed.
ExecParked == commands = <<>> /\ issued = <<>> /\ signalled = {} /\ execTimers = {}

\* No agent gathers wood.
GatherParked == isGatheringWood = [a \in Agents |-> FALSE] /\ loops = <<>>

LateParked == ResourceParked /\ IdsParked /\ ExecParked /\ GatherParked

\* clearTimeout(handle): a pending timeout is cancelled, a fired or cleared one is left.
clearTimeout(pending, handle) == pending \ {handle}

\* Say(message, duration) up to its first await: the stored timeout is cleared and the
\* agent starts talking.
SayBegin(c) ==
    /\ sayPc[c] = "idle"
    /\ timers' = IF dialogueTimeout # Undefined
                 THEN clearTimeout(timers, dialogueTimeout)
                 ELSE timers
    /\ isTalking' = TRUE
    /\ sayPc' = [sayPc EXCEPT ![c] = "awaiting"]
    /\ UNCHANGED dialogueTimeout

\* Say after its awaits (fetch, response.json, audio.play) have settled or thrown: the
\* timeout that ends the dialogue is set and its handle stored.
SayResume(c) ==
    /\ sayPc[c] = "awaiting"
    /\ timers' = timers \cup {c}
    /\ dialogueTimeout' = c
    /\ sayPc' = [sayPc EXCEPT ![c] = "done"]
    /\ UNCHANGED isTalking

\* The callback of the timeout set by call c runs, its duration having elapsed.
TimeoutFires(c) ==
    /\ c \in timers
    /\ timers' = timers \ {c}
    /\ isTalking' = FALSE
    /\ UNCHANGED <<dialogueTimeout, sayPc>>

NextSay ==
    \/ \E c \in SayCalls : SayBegin(c) /\ UNCHANGED <<healthVars, registryVars, agentVars, lateVars>>
    \/ \E c \in SayCalls : SayResume(c) /\ UNCHANGED <<healthVars, registryVars, agentVars, lateVars>>
    \/ \E c \in SayCalls : TimeoutFires(c) /\ UNCHANGED <<healthVars, registryVars, agentVars, lateVars>>

(***************************************************************************)
(* Specifications                                                          *)
(***************************************************************************)

\* The HealthComponent alone; the registry stays empty.
InitHealth == HealthInit /\ RegistryInit /\ AgentsParked /\ SayParked /\ LateParked

SpecHealth == InitHealth /\ [][NextHealth]_vars

\* The EntityManager alone; the HealthComponent is not touched.
InitRegistry ==
    /\ maxHealth = 1 /\ currentHealth = 1 /\ onDeathCallbacks = <<>>
    /\ invoked = [c \in CallbackIds |-> 0] /\ owed = [c \in CallbackIds |-> 0]
    /\ healthOp = <<"new", 0, 0>>
    /\ RegistryInit
    /\ AgentsParked
    /\ SayParked
    /\ LateParked

SpecRegistry == InitRegistry /\ [][NextRegistry]_vars

\* The agents in a registry that holds them both; the HealthComponent of the first
\* specification is not touched.
Init ==
    /\ maxHealth = 1 /\ currentHealth = 1 /\ onDeathCallbacks = <<>>
    /\ invoked = [c \in CallbackIds |-> 0] /\ owed = [c \in CallbackIds |-> 0]
    /\ healthOp = <<"new", 0, 0>>
    /\ entities = <<1, 2>> /\ entitiesToAdd = <<>> /\ entitiesToRemove = <<>>
    /\ pc = "idle" /\ visited = {} /\ cleanupCalls = [e \in EntityIds |-> 0]
    /\ stagedSinceCommit = {} /\ addStagedBefore = {} /\ removeStagedBefore = {}
    /\ removeAskedInTick = {}
    /\ AgentInit
    /\ SayParked
    /\ LateParked

Spec == Init /\ [][Next]_vars

\* deltaTime of the ticks of SpecCooldown: finer than those of Spec.
FineDeltaTimes == {50, 500}

\* The span of ticks SpecCooldown runs: 100 ms more than the attack interval (the 1600 ms
\* of an agent whose interval is 1500 ms).
CooldownWindow == AttackInterval + 100

\* Agent 1 has been told to engage agent 2, which stands within its attack range.
InitCooldown ==
    /\ maxHealth = 1 /\ currentHealth = 1 /\ onDeathCallbacks = <<>>
    /\ invoked = [c \in CallbackIds |-> 0] /\ owed = [c \in CallbackIds |-> 0]
    /\ healthOp = <<"new", 0, 0>>
    /\ entities = <<1, 2>> /\ entitiesToAdd = <<>> /\ entitiesToRemove = <<>>
    /\ pc = "idle" /\ visited = {} /\ cleanupCalls = [e \in EntityIds |-> 0]
    /\ stagedSinceCommit = {} /\ addStagedBefore = {} /\ removeStagedBefore = {}
    /\ removeAskedInTick = {}
    /\ npc = engageInCombat([a \in Agents |-> IF a = 1 THEN NewNPC(200, <<>>)
                                                       ELSE NewNPC(300, <<>>)], 1, 2)
    /\ lastCall = "engageInCombat"
    /\ cmdCount = 1
    /\ simTime = 0
    /\ SayParked
    /\ LateParked

\* The ticks of the window; Date.now() advances with deltaTime, the time between two frames
\* of GameWorld's animation loop.
NextCooldown ==
    \E dt \in FineDeltaTimes, side \in {-1, 1} :
        /\ simTime + dt <= CooldownWindow
        /\ Tick(dt, side)
        /\ simTime' = simTime + dt

\* Agents in combat under fine ticks, for one attack interval and a little more.
SpecCooldown == InitCooldown /\ [][NextCooldown]_vars

(***************************************************************************)
(* Claims                                                                  *)
(***************************************************************************)

\* C1: after any sequence of damage(amount) and heal(amount) calls on a HealthComponent,
\* 0 <= currentHealth <= maxHealth.
C1_HealthWithinBounds == 0 <= currentHealth /\ currentHealth <= maxHealth

\* C1 witness: a damage larger than the positive health left has been floored at 0.
C1_Witness ==
    /\ healthOp[1] = "damage" /\ healthOp[2] > healthOp[3] /\ healthOp[3] > 0
    /\ currentHealth = 0

\* C1 witness of the cap: a heal larger than the missing health has been capped at maxHealth.
C1_WitnessHeal ==
    /\ healthOp[1] = "heal" /\ healthOp[3] + healthOp[2] > maxHealth
    /\ currentHealth = maxHealth

\* C2 (as stated): every registered death callback has been invoked exactly once per
\* transition of currentHealth from a positive value to 0, so a damage call made at
\* currentHealth = 0 invokes none.
C2_OncePerTransition == \A c \in CallbackIds : invoked[c] = owed[c]

\* C3 (as stated): for every agent, in every reachable state, at most one of the flags
\* inCombat, isFollowing, isMoving is true.
C3_AtMostOneBehaviourFlag ==
    \A a \in Agents :
        Cardinality({f \in {"inCombat", "isFollowing", "isMoving"} : npc[a][f]}) <= 1

\* C4 (as stated): when a hit takes a living agent's health to 0, the agent is Dead after
\* the call and isMoving, isFollowing and inCombat are all false, whatever it was doing.
C4_FatalDamageClearsBehaviour ==
    [][\A a \in Agents :
          (~npc[a].isDead /\ npc[a].health > 0 /\ npc'[a].health = 0) =>
              /\ npc'[a].isDead
              /\ ~npc'[a].isMoving
              /\ ~npc'[a].isFollowing
              /\ ~npc'[a].inCombat]_vars

\* C5 (as stated): a Command Surface call made on a Dead agent is a no-op: isMoving,
\* isRunning, inCombat, combatTarget, isFollowing, followTarget, the move target, isHit and
\* the knockback velocity keep the values they had before the call.  (A call on one agent
\* changes no other agent, so every Dead agent is unchanged by every call.)
C5_CommandsOnDeadAreNoOps ==
    [][cmdCount' = cmdCount + 1 =>
          \A a \in Agents :
              npc[a].isDead =>
                  \A f \in {"isMoving", "isRunning", "inCombat", "combatTarget", "isFollowing",
                            "followTarget", "targetPosition", "targetEntity", "isHit",
                            "kvx", "kvy"} :
                      npc'[a][f] = npc[a][f]]_vars

\* C6: once an agent is Dead its position never changes again, whatever calls and ticks
\* follow.
C6_DeadNeverMoves ==
    [][\A a \in Agents :
          npc[a].isDead => (npc'[a].x = npc[a].x /\ npc'[a].y = npc[a].y)]_vars

\* C6 witness: a tick has run on a Dead agent that a MoveTo issued after its death had told
\* to move to another place.
C6_Witness ==
    /\ lastCall = "update"
    /\ \E a \in Agents :
          /\ npc[a].isDead
          /\ npc[a].deathTime > 0
          /\ npc[a].isMoving
          /\ npc[a].targetPosition # <<>>
          /\ npc[a].targetPosition # <<npc[a].x>>

\* C7 (as stated): a new command to a living agent discards the previous intent: after
\* MoveTo on an agent in combat or following, the agent is neither in combat nor following;
\* after engageInCombat on a following agent it is no longer following; after startFollowing
\* on an agent in combat it is no longer in combat.
C7_NewCommandDiscardsIntent ==
    [][\A a \in Agents :
          ~npc[a].isDead =>
              /\ (\E pos \in {<<p>> : p \in MovePositions}, shouldRun \in BOOLEAN :
                      CmdMoveTo(a, pos, Undefined, shouldRun))
                     => (~npc'[a].inCombat /\ ~npc'[a].isFollowing)
              /\ (\E target \in Agents : CmdEngageInCombat(a, target))
                     => ~npc'[a].isFollowing
              /\ (\E target \in Agents : CmdStartFollowing(a, target))
                     => ~npc'[a].inCombat]_vars

C9_StagedInvisible ==
    \A e \in stagedSinceCommit :
        /\ GetEntity(e) = Undefined
        /\ e \notin GetAllEntities
        /\ e \notin visited

\* C9 witness: an entity's update has staged an addition while the pass is running.
C9_Witness ==
    /\ pc = "updating"
    /\ visited # {}
    /\ stagedSinceCommit # {}

C11_CommittedStableDuringPass ==
    [][/\ (pc = "updating" /\ pc' = "updating") =>
            /\ entities' = entities
            /\ \E e \in Range(entities) \ visited : visited' = visited \cup {e}
       /\ (pc = "updating" /\ pc' = "idle") => visited = Range(entities)]_vars

\* C11 witness: the pass is over, and during it one update has requested a removal and
\* another has staged an addition.
C11_Witness ==
    /\ pc = "updating"
    /\ visited = Range(entities)
    /\ removeAskedInTick # {}
    /\ stagedSinceCommit # {}

Before(seq, a) == SubSeq(seq, 1, (CHOOSE i \in 1..Len(seq) : seq[i] = a) - 1)

WorldBefore(a, dt, side) ==
    UpdateAll(Elapsed(npc, dt), Before(entities, a), dt, side, Range(entities))

WorldAfter(a, dt, side) ==
    update(WorldBefore(a, dt, side), a, dt, side, Range(entities))

\* C13: at the end of the tick of a living agent that was in combat, the agent has left
\* combat and has no combat target when the target's health is 0 or the distance
\* measured in that tick exceeds the disengage distance, and otherwise is still in
\* combat with the same target.
C13_CombatExit ==
    \A dt \in DeltaTimes, side \in {-1, 1}, a \in Range(entities) :
        LET wb == WorldBefore(a, dt, side)
            wc == BeforeCombatStep(wb, a, dt, Range(entities))
            wa == WorldAfter(a, dt, side)
            t  == wb[a].combatTarget
        IN (~wb[a].isDead /\ wb[a].inCombat /\ t # Undefined) =>
              IF \/ wa[t].health = 0
                 \/ Distance(wc[a].x, wc[a].y, wc[t].x, wc[t].y) > DisengageDistance
              THEN ~wa[a].inCombat /\ wa[a].combatTarget = Undefined
              ELSE wa[a].inCombat /\ wa[a].combatTarget = t

\* An agent in combat with a target beyond the disengage distance, whose coming tick
\* takes it out of combat.
C13_Witness ==
    /\ 1 \in Range(entities) /\ ~npc[1].isDead
    /\ npc[1].inCombat /\ npc[1].combatTarget = 2
    /\ Distance(npc[1].x, npc[1].y, npc[2].x, npc[2].y) > DisengageDistance
    /\ \A dt \in DeltaTimes : ~WorldAfter(1, dt, 1)[1].inCombat

\* An agent in combat whose coming tick kills the target and so takes it out of combat.
C13_WitnessKill ==
    /\ 1 \in Range(entities) /\ ~npc[1].isDead
    /\ npc[1].inCombat /\ npc[1].combatTarget = 2 /\ npc[2].health > 0
    /\ \E dt \in DeltaTimes :
          /\ WorldAfter(1, dt, 1)[2].health = 0
          /\ ~WorldAfter(1, dt, 1)[1].inCombat

\* An agent in combat whose coming tick leaves it in combat with the same target.
C13_WitnessStay ==
    /\ 1 \in Range(entities) /\ ~npc[1].isDead
    /\ npc[1].inCombat /\ npc[1].combatTarget = 2
    /\ \E dt \in DeltaTimes :
          /\ WorldAfter(1, dt, 1)[2].health > 0
          /\ WorldAfter(1, dt, 1)[1].inCombat

\* ---- takeDamage among three agents ----

\* Three agents: the victim 1, and 2 and 3, each the attacker or the victim's combat
\* target.
Fighters == {1, 2, 3}

FighterHealths == {0, 10, 20}

\* A fighter of the given health at x: takeDamage has brought it there, and die() has run
\* on a fighter of health 0.
Fighter(x, health) ==
    LET s == [NewNPC(x, <<>>) EXCEPT !.health = health]
    IN IF health = 0
       THEN [s EXCEPT !.isDead = TRUE, !.deathTime = 0, !.isHit = FALSE]
       ELSE IF health < AgentMaxHealth
            THEN [s EXCEPT !.isHit = TRUE, !.hitRecoveryTime = 0]
            ELSE s

\* The victim stands beside the other two, at 400 and 600, or between them.
VictimPositions == {200, 500}

\* The victim is alive and has no combat target or is in combat with 2 or with 3.
InitTakeDamage ==
    /\ maxHealth = 1 /\ currentHealth = 1 /\ onDeathCallbacks = <<>>
    /\ invoked = [c \in CallbackIds |-> 0] /\ owed = [c \in CallbackIds |-> 0]
    /\ healthOp = <<"new", 0, 0>>
    /\ entities = <<1, 2, 3>> /\ entitiesToAdd = <<>> /\ entitiesToRemove = <<>>
    /\ pc = "idle" /\ visited = {} /\ cleanupCalls = [e \in EntityIds |-> 0]
    /\ stagedSinceCommit = {} /\ addStagedBefore = {} /\ removeStagedBefore = {}
    /\ removeAskedInTick = {}
    /\ \E h \in [Fighters -> FighterHealths], ct \in {Undefined, 2, 3}, x \in VictimPositions :
          /\ h[1] > 0
          /\ LET w == [a \in Fighters |-> Fighter(IF a = 1 THEN x ELSE 200 * a, h[a])]
             IN npc = IF ct = Undefined THEN w ELSE engageInCombat(w, 1, ct)
    /\ lastCall = "new"
    /\ cmdCount = 0
    /\ simTime = 0
    /\ SayParked
    /\ LateParked

\* One call of takeDamage on the victim by one of the other two.
TakeDamageOnce(amount, attacker) ==
    /\ lastCall = "new"
    /\ CmdTakeDamage(1, amount, attacker)

NextTakeDamage ==
    \E amount \in DamageAmounts, attacker \in {2, 3} : TakeDamageOnce(amount, attacker)

SpecTakeDamage == InitTakeDamage /\ [][NextTakeDamage]_vars

\* C14: after a non-lethal takeDamage by another agent, the victim is in combat with the
\* attacker when it had no combat target or its combat target had more health than the
\* attacker, and otherwise its combat target is the one it had.
C14_AutoEngage ==
    [][\A amount \in DamageAmounts, attacker \in {2, 3} :
          (TakeDamageOnce(amount, attacker) /\ npc[1].health > amount) =>
              IF \/ npc[1].combatTarget = Undefined
                 \/ npc[npc[1].combatTarget].health > npc[attacker].health
              THEN npc'[1].inCombat /\ npc'[1].combatTarget = attacker
              ELSE npc'[1].combatTarget = npc[1].combatTarget]_vars

\* The victim, between the two and in combat with 2, has survived a hit from 3, which is
\* no weaker than 2, and kept its target.
C14_Witness ==
    /\ lastCall = "takeDamage" /\ ~npc[1].isDead
    /\ npc[1].combatTarget = 2
    /\ npc[1].x = 500 /\ npc[1].kvx < 0
    /\ npc[2].health <= npc[3].health

\* The victim has survived a hit by an attacker weaker than its target and turned on it.
C14_WitnessSwitch ==
    /\ lastCall = "takeDamage" /\ ~npc[1].isDead
    /\ npc[1].combatTarget = 3 /\ npc[1].inCombat
    /\ npc[1].kvx < 0
    /\ npc[2].health > npc[3].health

\* ---- the fade of a dead agent ----

\* One of the two agents has just died of takeDamage, dealt by the other, which stands
\* idle, or by no NPC.
InitFade ==
    /\ maxHealth = 1 /\ currentHealth = 1 /\ onDeathCallbacks = <<>>
    /\ invoked = [c \in CallbackIds |-> 0] /\ owed = [c \in CallbackIds |-> 0]
    /\ healthOp = <<"new", 0, 0>>
    /\ entities = <<1, 2>> /\ entitiesToAdd = <<>> /\ entitiesToRemove = <<>>
    /\ pc = "idle" /\ visited = {} /\ cleanupCalls = [e \in EntityIds |-> 0]
    /\ stagedSinceCommit = {} /\ addStagedBefore = {} /\ removeStagedBefore = {}
    /\ removeAskedInTick = {}
    /\ \E victim \in Agents, byNPC \in BOOLEAN :
          npc = takeDamage([a \in Agents |-> NewNPC(200 * a, <<>>)], victim, AgentMaxHealth,
                           IF byNPC THEN CHOOSE o \in Agents : o # victim ELSE Undefined)
    /\ lastCall = "takeDamage"
    /\ cmdCount = 1
    /\ simTime = 0
    /\ SayParked
    /\ LateParked

\* The frames that follow: each calls EntityManager.update with a positive deltaTime.
NextFade ==
    \E dt \in FineDeltaTimes, side \in {-1, 1} : Tick(dt, side) /\ UNCHANGED simTime

\* requestAnimationFrame keeps scheduling animate, so a frame that can run does run.
SpecFade == InitFade /\ [][NextFade]_vars /\ WF_vars(NextFade)

\* C15: a dead agent that keeps being ticked is eventually removed from the registry; the
\* tick that removes it is the one in which its update asked for the removal, once, with
\* the fade complete (10 s accumulated since death), and after it the agent is not
\* updated again.
C15_DeadEventuallyRemoved ==
    /\ \A a \in Agents :
          (npc[a].isDead /\ a \in Range(entities)) ~> (a \notin Range(entities))
    /\ [][\A a \in Agents :
             /\ (a \in Range(entities) /\ a \notin Range(entities')) =>
                   /\ npc'[a].isDead
                   /\ npc[a].deathTime < FadeStart + FadeDuration
                   /\ npc'[a].deathTime >= FadeStart + FadeDuration
                   /\ Count(RemovalRequests(npc', entities), a) = 1
             /\ (a \in Range(entities) /\ a \in Range(entities')) =>
                   ~(npc'[a].isDead /\ npc'[a].deathTime >= FadeStart + FadeDuration)
             /\ a \notin Range(entities) =>
                   /\ a \notin Range(entities')
                   /\ npc'[a].deathTime = npc[a].deathTime]_vars

\* The dead agent has been removed by the tick that completed its fade.
C15_Witness ==
    /\ lastCall = "update"
    /\ \E a \in Agents :
          /\ npc[a].isDead
          /\ npc[a].deathTime >= FadeStart + FadeDuration
          /\ a \notin Range(entities)

\* The movement steps of the coming update of agent a that change its position.
MovingSteps(a, dt, side) ==
    LET committed == Range(entities)
        w2 == BeforeFollowStep(WorldBefore(a, dt, side), a, dt)
        w3 == FollowStep(w2, a, dt, committed)
        w4 == CombatStep(w3, a, dt, side, committed)
        w5 == MoveStep(w4, a, dt, TRUE, <<w4[a].x>>, committed)
    IN {step \in {"following", "combat", "move"} :
           \/ step = "following" /\ w3[a].x # w2[a].x
           \/ step = "combat" /\ w4[a].x # w3[a].x
           \/ step = "move" /\ w5[a].x # w4[a].x}

\* C16: in a tick of a living agent at most one of the following, combat and commanded
\* move or wander steps changes its position, and the following step does not move an
\* agent that is in combat.
C16_OneMovementStep ==
    \A dt \in DeltaTimes, side \in {-1, 1}, a \in Range(entities) :
        ~WorldBefore(a, dt, side)[a].isDead =>
            /\ Cardinality(MovingSteps(a, dt, side)) <= 1
            /\ WorldBefore(a, dt, side)[a].inCombat => "following" \notin MovingSteps(a, dt, side)

\* C17: in a tick in which a living agent's knockback velocity is non-zero, the combat,
\* following and commanded move or wander steps do not change its position.
C17_KnockbackPreempts ==
    \A dt \in DeltaTimes, side \in {-1, 1}, a \in Range(entities) :
        LET s == WorldBefore(a, dt, side)[a]
        IN (~s.isDead /\ (s.kvx # 0 \/ s.kvy # 0)) => MovingSteps(a, dt, side) = {}

\* C18: an agent's update changes only that agent's own fields; the health, position,
\* knockback velocity and behaviour flags of every other agent are the same before and
\* after the call.
C18_UpdateTouchesOnlySelf ==
    \A dt \in DeltaTimes, side \in {-1, 1}, a \in Range(entities) :
        \A b \in Agents \ {a} :
            WorldAfter(a, dt, side)[b] = WorldBefore(a, dt, side)[b]

\* The entity a living agent is following or moving toward, Undefined when none.
Pursued(s) ==
    IF s.isFollowing /\ s.followTarget # Undefined THEN s.followTarget
    ELSE IF s.isMoving THEN s.targetEntity
    ELSE Undefined

\* C19: when the entity an agent is moving toward or following has been removed from the
\* registry, the agent's next tick clears its movement state (isMoving and isFollowing
\* false, no target entity) and does not move it toward the removed entity.
C19_RemovedTargetClearsMovement ==
    [][\A a \in Range(entities) :
          LET t == Pursued(npc[a])
          IN (/\ ~npc[a].isDead
              /\ t # Undefined /\ t \notin Range(entities)
              /\ \E dt \in DeltaTimes, side \in {-1, 1} : Tick(dt, side)) =>
                 /\ ~npc'[a].isMoving /\ ~npc'[a].isFollowing
                 /\ npc'[a].targetEntity = Undefined
                 /\ Abs(npc'[a].x - npc[t].x) >= Abs(npc[a].x - npc[t].x)]_vars

\* ---- overlapping calls of Say ----

InitSay ==
    /\ maxHealth = 1 /\ currentHealth = 1 /\ onDeathCallbacks = <<>>
    /\ invoked = [c \in CallbackIds |-> 0] /\ owed = [c \in CallbackIds |-> 0]
    /\ healthOp = <<"new", 0, 0>>
    /\ RegistryInit
    /\ AgentsParked
    /\ SayParked
    /\ LateParked

SpecSay == InitSay /\ [][NextSay]_vars

\* C20: Say cancels and replaces the pending clear, so at most one timeout that clears
\* isTalking is pending, and the only timeout that may fire is the one set by the latest
\* call: a call made while an earlier one is still awaiting leaves no second timeout.
C20_AtMostOneClearPending ==
    /\ Cardinality(timers) <= 1
    /\ timers \subseteq {dialogueTimeout}
    /\ (\E c \in SayCalls : sayPc[c] = "awaiting") => isTalking

\* The behaviour state Stop() is to leave: no flag set and no target kept.
Halted(s) ==
    /\ ~s.isMoving /\ ~s.isRunning /\ ~s.isFollowing /\ ~s.inCombat /\ ~s.isWandering
    /\ s.targetPosition = <<>> /\ s.targetEntity = Undefined
    /\ s.combatTarget = Undefined /\ s.followTarget = Undefined
    /\ s.wanderTarget = <<>>

\* C21: Stop() on a living agent, whatever it was doing, leaves isMoving, isRunning,
\* isFollowing, inCombat and isWandering false and the move, combat, follow and wander
\* targets undefined.
C21_StopClearsEverything ==
    [][\A a \in Agents :
          ~npc[a].isDead =>
              /\ Halted(Stop(npc, a)[a])
              /\ CmdStop(a) => Halted(npc'[a])]_vars

\* Stop() has just halted a living agent that an earlier command had set in motion.
C21_Witness ==
    /\ lastCall = "Stop" /\ cmdCount = 2
    /\ ~npc[1].isDead /\ npc[1].x # 200
    /\ Halted(npc[1])

\* C22: Stop() is idempotent: from any agent state, Stop(); Stop() leaves the state a
\* single Stop() leaves.
C22_StopIdempotent ==
    \A a \in Agents : Stop(Stop(npc, a), a) = Stop(npc, a)

\* An agent that is following and in combat at once, which Stop() changes.
C22_Witness ==
    /\ npc[1].isFollowing /\ npc[1].inCombat
    /\ Stop(npc, 1) # npc
    /\ Stop(Stop(npc, 1), 1) = Stop(npc, 1)

\* ---- the distance query ----

\* Entities of the query: 1 is the requesting NPC, 2 another NPC, the others resources.
MaxQueryEntities == 4

QueryIds == 1..MaxQueryEntities

IsNPCEntity(e) == e <= 2

IsResourceEntity(e) == e > 2

\* Where the entities other than the requester (at 200) stand.
QueryPositions == {0, 200, 300}

\* Array.prototype.filter: the entries of seq in the set keep, in order.
Filter(seq, keep) == SelectSeq(seq, LAMBDA e : e \in keep)

\* Array.prototype.sort with the comparator a.distance - b.distance: ascending, entries of
\* equal distance in their original order.
RECURSIVE SortByDistance(_)
SortByDistance(seq) ==
    IF seq = <<>> THEN <<>>
    ELSE LET last == seq[Len(seq)]
             sorted == SortByDistance(SubSeq(seq, 1, Len(seq) - 1))
             before == SelectSeq(sorted, LAMBDA r : r.distance <= last.distance)
             after == SelectSeq(sorted, LAMBDA r : r.distance > last.distance)
         IN before \o <<last>> \o after

Unsorted(seq) == seq

\* The order getEntitiesByDistance returns its entries in.
ByDistance(seq) == SortByDistance(seq)

\* NPCEntity.getEntitiesByDistance(filter, excludeSelf) called on self: filter is the set
\* of entities the predicate accepts.
getEntitiesByDistance(w, self, filter, excludeSelf) ==
    LET kept == Filter(Filter(entities, filter),
                       {e \in QueryIds : ~excludeSelf \/ e # self})
    IN ByDistance([i \in 1..Len(kept) |->
                     [entity |-> kept[i],
                      distance |-> Distance(w[self].x, w[self].y, w[kept[i]].x, w[kept[i]].y)]])

\* NPCEntity.getResourcesByDistance() and getNPCsByDistance() without options.
getResourcesByDistance(w, self) ==
    getEntitiesByDistance(w, self, {e \in QueryIds : IsResourceEntity(e)}, TRUE)

getNPCsByDistance(w, self) ==
    getEntitiesByDistance(w, self, {e \in QueryIds : IsNPCEntity(e)}, TRUE)

\* NPCEntity.moveToNearestResource / moveToNearestNPC / moveToNearestCharacter: MoveTo
\* the first entry, nothing when the list is empty.
moveToNearest(w, self, list) ==
    IF Len(list) > 0 THEN MoveTo(w, self, <<>>, list[1].entity, FALSE) ELSE w

\* NPCEntity.moveToFurthestResource
moveToFurthest(w, self, list) ==
    IF Len(list) > 0 THEN MoveTo(w, self, <<>>, list[Len(list)].entity, FALSE) ELSE w

\* The sequences without repetition over the set ids.
RECURSIVE Arrangements(_)
Arrangements(ids) ==
    {<<>>} \cup UNION {{<<e>> \o rest : rest \in Arrangements(ids \ {e})} : e \in ids}

\* Any entities committed to the registry in any order, the requester among them or not.
InitQuery ==
    /\ maxHealth = 1 /\ currentHealth = 1 /\ onDeathCallbacks = <<>>
    /\ invoked = [c \in CallbackIds |-> 0] /\ owed = [c \in CallbackIds |-> 0]
    /\ healthOp = <<"new", 0, 0>>
    /\ entities \in Arrangements(QueryIds)
    /\ entitiesToAdd = <<>> /\ entitiesToRemove = <<>>
    /\ pc = "idle" /\ visited = {} /\ cleanupCalls = [e \in EntityIds |-> 0]
    /\ stagedSinceCommit = {} /\ addStagedBefore = {} /\ removeStagedBefore = {}
    /\ removeAskedInTick = {}
    /\ \E pos \in [QueryIds \ {1} -> QueryPositions] :
          npc = [e \in QueryIds |-> NewNPC(IF e = 1 THEN 200 ELSE pos[e], <<>>)]
    /\ lastCall = "new"
    /\ cmdCount = 0
    /\ simTime = 0
    /\ SayParked
    /\ LateParked

\* One call of a method that moves the requester by the result of the query.
QueryCall(name, w) ==
    /\ lastCall = "new"
    /\ npc' = w
    /\ Called(name, 1)

NextQuery ==
    \/ QueryCall("moveToNearestResource", moveToNearest(npc, 1, getResourcesByDistance(npc, 1)))
    \/ QueryCall("moveToFurthestResource", moveToFurthest(npc, 1, getResourcesByDistance(npc, 1)))
    \/ QueryCall("moveToNearestNPC", moveToNearest(npc, 1, getNPCsByDistance(npc, 1)))
    \/ QueryCall("moveToNearestCharacter", moveToNearest(npc, 1, getNPCsByDistance(npc, 1)))

SpecQuery == InitQuery /\ [][NextQuery]_vars

\* The entities of a query result, in order.
Entities(list) == [i \in 1..Len(list) |-> list[i].entity]

\* C23: the distance query returns exactly the committed entities the predicate accepts,
\* the requester excluded, each once and in ascending order of their distance from the
\* requester; when nothing matches the list is empty and moveToNearestResource,
\* moveToFurthestResource, moveToNearestNPC and moveToNearestCharacter leave the agent
\* as it was.
C23_DistanceQuery ==
    [][/\ \A filter \in SUBSET QueryIds :
             LET list == getEntitiesByDistance(npc, 1, filter, TRUE)
                 matching == (Range(entities) \cap filter) \ {1}
             IN /\ Range(Entities(list)) = matching
                /\ Len(list) = Cardinality(matching)
                /\ \A i \in 1..Len(list) :
                      list[i].distance = Distance(npc[1].x, npc[1].y,
                                                  npc[list[i].entity].x, npc[list[i].entity].y)
                /\ \A i \in 1..Len(list), j \in 1..Len(list) :
                      i < j => list[i].distance <= list[j].distance
                /\ matching = {} => list = <<>>
       /\ (lastCall' \in {"moveToNearestResource", "moveToFurthestResource"}
             /\ \A e \in Range(entities) : ~IsResourceEntity(e)) => npc' = npc
       /\ (lastCall' \in {"moveToNearestNPC", "moveToNearestCharacter"}
             /\ \A e \in Range(entities) \ {1} : ~IsNPCEntity(e)) => npc' = npc]_vars

\* The requester has been sent to the nearer of two committed resources, which was
\* committed after the farther one.
C23_Witness ==
    /\ lastCall = "moveToNearestResource"
    /\ entities = <<4, 1, 3>>
    /\ npc[1].targetEntity = 3
    /\ Abs(npc[3].x - npc[1].x) < Abs(npc[4].x - npc[1].x)

\* The requester has asked for the nearest resource where none is committed.
C23_WitnessEmpty ==
    /\ lastCall = "moveToNearestResource"
    /\ entities = <<2, 1>>
    /\ npc[1] = NewNPC(200, <<>>)

\* ---- two idle agents side by side ----

\* Where the second agent stands, the first standing at 200: on it, beside it within
\* twice the collision radius, and clear of it.
NeighbourPositions == {0, 100, 200, 300, 400, 500}

\* The frame counter wraps after this much accumulated deltaTime.
FrameCycle == 1000

\* Two agents just constructed, neither wandering, commanded, fighting, following nor
\* knocked back.
InitIdlePair ==
    /\ maxHealth = 1 /\ currentHealth = 1 /\ onDeathCallbacks = <<>>
    /\ invoked = [c \in CallbackIds |-> 0] /\ owed = [c \in CallbackIds |-> 0]
    /\ healthOp = <<"new", 0, 0>>
    /\ entities = <<1, 2>> /\ entitiesToAdd = <<>> /\ entitiesToRemove = <<>>
    /\ pc = "idle" /\ visited = {} /\ cleanupCalls = [e \in EntityIds |-> 0]
    /\ stagedSinceCommit = {} /\ addStagedBefore = {} /\ removeStagedBefore = {}
    /\ removeAskedInTick = {}
    /\ \E x2 \in NeighbourPositions :
          npc = [a \in Agents |-> NewNPC(IF a = 1 THEN 200 ELSE x2, <<>>)]
    /\ lastCall = "new"
    /\ cmdCount = 0
    /\ simTime = 0
    /\ SayParked
    /\ LateParked

\* The frames: each calls EntityManager.update with a positive deltaTime.
NextIdlePair ==
    \E dt \in FineDeltaTimes, side \in {-1, 1} :
        Tick(dt, side) /\ simTime' = (simTime + dt) % FrameCycle

\* requestAnimationFrame keeps scheduling animate, so a frame that can run does run.
SpecIdlePair == InitIdlePair /\ [][NextIdlePair]_vars /\ WF_vars(NextIdlePair)

\* The two agents are at least twice the collision radius apart.
Apart == Distance(npc[1].x, npc[1].y, npc[2].x, npc[2].y) >= COLLISION_RADIUS * 2

\* C24: two agents placed closer than twice the collision radius, with no command, combat,
\* following or knockback acting on them, are at least that far apart after finitely many
\* ticks and stay so.
C24_OverlapResolves == <>[]Apart

\* ---- the flight of a knocked back agent ----

\* Ticks within which a knocked back agent is to be back on the ground.
MaxAirTicks == 10

\* The states of agent a over the coming ticks of deltaTime dt, up to n of them, while its
\* knockback velocity is not zero; nothing else hits it meanwhile.
RECURSIVE Flight(_, _, _, _)
Flight(w, a, dt, n) ==
    IF n = 0 \/ (w[a].kvx = 0 /\ w[a].kvy = 0) THEN <<w[a]>>
    ELSE <<w[a]>> \o Flight(KnockbackStep(w, a, dt), a, dt, n - 1)

Grounded(s) == s.y = 0 /\ s.kvx = 0 /\ s.kvy = 0

\* A living agent on the ground that has just received a knockback impulse.
KnockedBack(s) == ~s.isDead /\ s.y = 0 /\ s.kvy > 0

Idle(s) ==
    ~s.isDead /\ ~s.isMoving /\ ~s.inCombat /\ ~s.isFollowing /\ ~s.isAttacking

\* C26: through ticks alone, an idle agent whose wander interval has elapsed picks a wander
\* target and begins to move toward it: with every draw of the wander chance succeeding
\* (update passes chance = TRUE), two idle agents that are only ticked reach a state where
\* one of them is wandering.
C26_IdleStartsWandering == <>(\E a \in Agents : npc[a].isWandering /\ npc[a].isMoving)

\* ---- the wander target ----

\* NPCEntity.WANDER_RADIUS (5)
WANDER_RADIUS == 500

\* The values of Math.random(), in thousandths: 0 <= Math.random() < 1.
RandomDraws == {0, 1, 500, 999}

\* The directions of angle = Math.random() * 2 * PI: <<Math.cos(angle), Math.sin(angle)>> in
\* thousandths, rounded toward zero.
WanderAngles ==
    { <<1000, 0>>, <<707, 707>>, <<0, 1000>>, <<-707, 707>>, <<-1000, 0>>,
      <<-707, -707>>, <<0, -1000>>, <<707, -707>>, <<600, 800>>, <<-800, 600>> }

\* A wander distance of up to twice the radius.
WanderDistanceDiameter(draw) == (draw * 2 * WANDER_RADIUS) \div 1000

\* tryStartWandering: distance = Math.random() * WANDER_RADIUS.
WanderDistance(draw) == (draw * WANDER_RADIUS) \div 1000

\* component * distance, component in thousandths, rounded toward zero.
Along(component, distance) == Sign(component) * ((Abs(component) * distance) \div 1000)

\* tryStartWandering: the offset <<dx, dz>> of the wander target from the agent's position;
\* the target's y is 0.
WanderOffset(angle, draw) ==
    <<Along(angle[1], WanderDistance(draw)), Along(angle[2], WanderDistance(draw))>>

\* The positions the agents are constructed at.
WanderSpawns == {700, 1100}

InitWander ==
    /\ maxHealth = 1 /\ currentHealth = 1 /\ onDeathCallbacks = <<>>
    /\ invoked = [c \in CallbackIds |-> 0] /\ owed = [c \in CallbackIds |-> 0]
    /\ healthOp = <<"new", 0, 0>>
    /\ entities = <<1, 2>> /\ entitiesToAdd = <<>> /\ entitiesToRemove = <<>>
    /\ pc = "idle" /\ visited = {} /\ cleanupCalls = [e \in EntityIds |-> 0]
    /\ stagedSinceCommit = {} /\ addStagedBefore = {} /\ removeStagedBefore = {}
    /\ removeAskedInTick = {}
    /\ \E x1 \in WanderSpawns, x2 \in WanderSpawns :
          npc = [a \in Agents |-> NewNPC(IF a = 1 THEN x1 ELSE x2, <<>>)]
    /\ lastCall = "new"
    /\ cmdCount = 0
    /\ simTime = 0
    /\ SayParked
    /\ LateParked

\* The end of the constructor of agent a: lastWanderTime = 0 and tryStartWandering(), with
\* the draws of the angle, of the distance and of WANDER_CHANCE.  cmdCount counts the
\* constructors that have run; the agents are constructed in the order of their ids.
ConstructWander(a, angle, draw, chance) ==
    /\ cmdCount = a - 1
    /\ npc' = tryStartWandering(npc, a, chance, <<npc[a].x + WanderOffset(angle, draw)[1]>>)
    /\ cmdCount' = a
    /\ lastCall' = "tryStartWandering"
    /\ UNCHANGED <<healthVars, registryVars, simTime, sayVars, lateVars>>

\* The frames start once the agents are constructed.
TickWander(dt, side) ==
    /\ cmdCount = Cardinality(Agents)
    /\ Tick(dt, side)
    /\ UNCHANGED simTime

NextWander ==
    \/ \E a \in Agents, angle \in WanderAngles, draw \in RandomDraws, chance \in BOOLEAN :
          ConstructWander(a, angle, draw, chance)
    \/ \E dt \in DeltaTimes, side \in {-1, 1} : TickWander(dt, side)

SpecWander == InitWander /\ [][NextWander]_vars

\* C27: whenever an agent at position P picks a wander target T, distance(P, T) is at most
\* WANDER_RADIUS: the offset drawn is no longer than the radius, and the target stored is
\* the position plus that offset.
C27_WanderWithinRadius ==
    [][\A a \in Agents, angle \in WanderAngles, draw \in RandomDraws :
          ConstructWander(a, angle, draw, TRUE) =>
             /\ Length(WanderOffset(angle, draw)[1], WanderOffset(angle, draw)[2])
                   <= WANDER_RADIUS
             /\ npc'[a].isWandering
             /\ npc'[a].wanderTarget = <<npc[a].x + WanderOffset(angle, draw)[1]>>
             /\ Distance(npc[a].x, npc[a].y, npc'[a].wanderTarget[1], 0) <= WANDER_RADIUS]_vars

\* An agent has picked a wander target almost a full radius away from where it stands.
C27_Witness ==
    /\ lastCall = "tryStartWandering"
    /\ npc[2].isWandering
    /\ Distance(npc[2].x, npc[2].y, npc[2].wanderTarget[1], 0) = WanderDistance(999)

\* ---- the life of a resource ----

\* The resource's maxHealth.
ResourceMaxHealth == 2

\* properties.respawnTime when it is positive, in units of time.
RespawnDelay == 3

\* The timeouts onDestroyed sets in one behaviour.
MaxRespawnTimeouts == 3

\* The amounts the resource is damaged by.
ResourceDamages == 1..ResourceMaxHealth

InitResource ==
    /\ maxHealth = 1 /\ currentHealth = 1 /\ onDeathCallbacks = <<>>
    /\ invoked = [c \in CallbackIds |-> 0] /\ owed = [c \in CallbackIds |-> 0]
    /\ healthOp = <<"new", 0, 0>>
    /\ RegistryInit
    /\ AgentsParked
    /\ SayParked
    /\ IdsParked
    /\ ExecParked
    /\ GatherParked
    /\ active = TRUE
    /\ resourceHealth = ResourceMaxHealth
    /\ respawnTime \in {0, RespawnDelay}
    /\ respawnTimeout = Undefined
    /\ respawnTimers = {}
    /\ sinceZero = 0
    /\ timeoutsSet = 0
    /\ cleanedUp = FALSE

\* getHealthComponent().damage(amount) on the resource; the death callback registered by
\* the constructor is onDestroyed: setActive(false) and, with a positive respawnTime, a
\* timeout for respawn whose handle replaces the stored one.
ResourceDamage(amount) ==
    LET after == Damaged(resourceHealth, amount)
        destroyed == FiresOnDeath(resourceHealth, after)
        handle == timeoutsSet + 1
    IN /\ (destroyed /\ respawnTime > 0) => timeoutsSet < MaxRespawnTimeouts
       /\ resourceHealth' = after
       /\ active' = IF destroyed THEN FALSE ELSE active
       /\ IF destroyed /\ respawnTime > 0
          THEN /\ respawnTimeout' = handle
               /\ respawnTimers' = respawnTimers \cup {<<handle, respawnTime>>}
               /\ timeoutsSet' = handle
          ELSE UNCHANGED <<respawnTimeout, respawnTimers, timeoutsSet>>
       /\ sinceZero' = IF resourceHealth > 0 /\ after = 0 THEN 0 ELSE sinceZero
       /\ UNCHANGED <<respawnTime, cleanedUp>>

\* One unit of time passes; a timeout that is due fires before more time passes.
ResourceElapse ==
    /\ \A t \in respawnTimers : t[2] > 0
    /\ respawnTimers # {} \/ sinceZero < RespawnDelay
    /\ respawnTimers' = {<<t[1], t[2] - 1>> : t \in respawnTimers}
    /\ sinceZero' = Min(RespawnDelay, sinceZero + 1)
    /\ UNCHANGED <<active, resourceHealth, respawnTime, respawnTimeout, timeoutsSet, cleanedUp>>

\* The timeout t is due and runs respawn(): heal(maxHealth) and setActive(true).
RespawnFires(t) ==
    /\ t \in respawnTimers
    /\ t[2] = 0
    /\ respawnTimers' = respawnTimers \ {t}
    /\ resourceHealth' = Healed(resourceHealth, ResourceMaxHealth, ResourceMaxHealth)
    /\ active' = TRUE
    /\ UNCHANGED <<respawnTime, respawnTimeout, sinceZero, timeoutsSet, cleanedUp>>

\* ResourceEntity.cleanup(): clearTimeout of the stored handle.
ResourceCleanup ==
    /\ ~cleanedUp
    /\ cleanedUp' = TRUE
    /\ respawnTimers' = IF respawnTimeout # Undefined
                        THEN {t \in respawnTimers : t[1] # respawnTimeout}
                        ELSE respawnTimers
    /\ UNCHANGED <<active, resourceHealth, respawnTime, respawnTimeout, sinceZero, timeoutsSet>>

NextResource ==
    \/ \E amount \in ResourceDamages :
          ResourceDamage(amount)
          /\ UNCHANGED <<healthVars, gatherVars, registryVars, agentVars, sayVars, idVars, execVars>>
    \/ ResourceElapse
       /\ UNCHANGED <<healthVars, gatherVars, registryVars, agentVars, sayVars, idVars, execVars>>
    \/ \E t \in respawnTimers :
          RespawnFires(t)
          /\ UNCHANGED <<healthVars, gatherVars, registryVars, agentVars, sayVars, idVars, execVars>>
    \/ ResourceCleanup
       /\ UNCHANGED <<healthVars, gatherVars, registryVars, agentVars, sayVars, idVars, execVars>>

SpecResource == InitResource /\ [][NextResource]_vars

\* C28: when the resource's health reaches 0 it becomes inactive at once; it becomes active
\* again only with a positive respawnTime, with currentHealth = maxHealth, and once the
\* respawn delay has passed since its health reached 0; with respawnTime 0 it stays
\* inactive.
C28_ResourceLifecycle ==
    [][/\ (resourceHealth > 0 /\ resourceHealth' = 0) => ~active'
       /\ (~active /\ active') =>
             /\ respawnTime > 0
             /\ resourceHealth' = ResourceMaxHealth
             /\ sinceZero >= respawnTime
       /\ (respawnTime = 0 /\ ~active) => ~active']_vars

\* ---- entity ids ----

\* A counter that is read but not advanced.
NotAdvanced(next) == next

\* Entity.constructor: the value nextEntityId++ leaves in the static counter.
Advanced(next) == next + 1

InitIds ==
    /\ maxHealth = 1 /\ currentHealth = 1 /\ onDeathCallbacks = <<>>
    /\ invoked = [c \in CallbackIds |-> 0] /\ owed = [c \in CallbackIds |-> 0]
    /\ healthOp = <<"new", 0, 0>>
    /\ RegistryInit
    /\ AgentsParked
    /\ SayParked
    /\ ResourceParked
    /\ ExecParked
    /\ GatherParked
    /\ nextEntityId = 1
    /\ created = <<>>

\* new Entity(config): this.id = Entity.nextEntityId++.  The object is not in the
\* EntityManager until addEntity is called with it.
Construct ==
    /\ Len(created) < NumEntities
    /\ created' = Append(created, nextEntityId)
    /\ nextEntityId' = Advanced(nextEntityId)
    /\ lastCall' = "construct"
    /\ UNCHANGED <<healthVars, gatherVars, registryVars, npc, cmdCount, simTime, sayVars,
                   resourceVars, execVars>>

\* A step of the EntityManager on the entities constructed so far.
OnRegistry(step) ==
    /\ step
    /\ lastCall' = "registry"
    /\ UNCHANGED <<healthVars, npc, cmdCount, simTime, sayVars, lateVars>>

NextIds ==
    \/ Construct
    \/ \E e \in Range(created) : OnRegistry(AddEntity(e))
    \/ \E e \in Range(created) : OnRegistry(RemoveEntity(e))
    \/ OnRegistry(UpdateBegin)
    \/ \E effect \in {"none", "removeSelf"} : OnRegistry(UpdateEntity(effect, Undefined))
    \/ OnRegistry(UpdateEnd)

SpecIds == InitIds /\ [][NextIds]_vars

\* C29: entity ids are unique and strictly increasing in creation order: of any two
\* entities ever constructed, removed and cleaned up or not, the one constructed later has
\* the greater id.
C29_IdsStrictlyIncreasing ==
    \A i, j \in 1..Len(created) : i < j => created[i] < created[j]

\* An entity has just been constructed after the first one was removed and cleaned up.
C29_Witness ==
    /\ lastCall = "construct"
    /\ Len(created) >= 2
    /\ cleanupCalls[created[1]] > 0
    /\ created[1] \notin Range(entities)
    /\ created[Len(created)] # created[1]

\* ---- the execution of an interpreted command list ----

\* The agent the list is executed on, and the agent its commands name.
TargetNPC == 1

NamedNPC == 2

\* A command of the interpreted list: npc is the entity carrying target.npcName, or
\* Undefined when no entity carries it.
Command(action, target, x, named, message) ==
    [action |-> action, target |-> target, x |-> x, npc |-> named, message |-> message]

CommandChoices ==
    { Command("MOVE", "LOCATION", 400, Undefined, ""),
      Command("RUN", "LOCATION", 100, Undefined, ""),
      Command("MOVE", "NPC", 0, NamedNPC, ""),
      Command("SPEAK", "", 0, Undefined, "hello"),
      Command("SPEAK", "", 0, Undefined, ""),
      Command("ATTACK", "NPC", 0, NamedNPC, ""),
      Command("ATTACK", "NPC", 0, Undefined, ""),
      Command("FOLLOW", "NPC", 0, NamedNPC, ""),
      Command("STOP", "", 0, Undefined, "") }

\* gptResult.commands: the lists of one or two commands.
CommandLists ==
    {<<c>> : c \in CommandChoices} \cup {<<c, d>> : c \in CommandChoices, d \in CommandChoices}

\* checkPosition: the distance below which the agent has arrived (1).
ArrivalTolerance == 100

\* The poll sees the agent within the tolerance however far it is.
ArrivedAtOnce(w, x) == TRUE

\* checkPosition: distance < 1 between the agent and (command.target.x, 0, command.target.z).
Arrived(w, x) == Distance(w[TargetNPC].x, w[TargetNPC].y, x, 0) < ArrivalTolerance

\* entityManager.getAllEntities().find(...) has found the NPC the command names.
Found(c) == c.npc # Undefined /\ c.npc \in Range(entities)

ToLocation(c) == c.action \in {"MOVE", "RUN", "WALK"} /\ c.target = "LOCATION"

\* The switch of executeCommands makes a call on the agent for command c.
Issues(c) ==
    \/ ToLocation(c)
    \/ c.action \in {"MOVE", "RUN", "WALK", "ATTACK", "FOLLOW"} /\ c.target = "NPC" /\ Found(c)
    \/ c.action = "SPEAK" /\ c.message # ""
    \/ c.action = "STOP"

\* The agents after the call the switch makes for command c.
Applied(w, c) ==
    IF ToLocation(c) THEN MoveTo(w, TargetNPC, <<c.x>>, Undefined, c.action = "RUN")
    ELSE IF c.action \in {"MOVE", "RUN", "WALK", "FOLLOW"}
         THEN MoveTo(w, TargetNPC, <<>>, c.npc, FALSE)
    ELSE IF c.action = "ATTACK" THEN engageInCombat(w, TargetNPC, c.npc)
    ELSE IF c.action = "STOP" THEN Stop(w, TargetNPC)
    ELSE w

\* What the switch leaves pending for command c: the position poll, the timeout of
\* 3000, 2000 or 1000 ms before waitForNextCommand, or waitForNextCommand's own timeout.
Schedules(c) ==
    IF ToLocation(c) THEN "poll"
    ELSE IF c.action \in {"SPEAK", "ATTACK", "FOLLOW"} THEN "delay"
    ELSE "next"

InitExec ==
    /\ maxHealth = 1 /\ currentHealth = 1 /\ onDeathCallbacks = <<>>
    /\ invoked = [c \in CallbackIds |-> 0] /\ owed = [c \in CallbackIds |-> 0]
    /\ healthOp = <<"new", 0, 0>>
    /\ entities = <<1, 2>> /\ entitiesToAdd = <<>> /\ entitiesToRemove = <<>>
    /\ pc = "idle" /\ visited = {} /\ cleanupCalls = [e \in EntityIds |-> 0]
    /\ stagedSinceCommit = {} /\ addStagedBefore = {} /\ removeStagedBefore = {}
    /\ removeAskedInTick = {}
    /\ npc = [a \in Agents |-> NewNPC(IF a = TargetNPC THEN 200 ELSE 600, <<>>)]
    /\ lastCall = "new"
    /\ cmdCount = 0
    /\ simTime = 0
    /\ SayParked
    /\ ResourceParked
    /\ IdsParked
    /\ GatherParked
    /\ commands \in CommandLists
    /\ issued = <<>>
    /\ signalled = {}
    /\ execTimers = {<<"next", 0>>}

\* executeCommands(commands, i + 1), called by sendCommand (i = 0) or by the timeout that
\* waitForNextCommand set for command i, whose fixed delay has then elapsed.
ExecuteNext(i) ==
    /\ <<"next", i>> \in execTimers
    /\ signalled' = IF i > 0 THEN signalled \cup {i} ELSE signalled
    /\ IF i + 1 > Len(commands) \/ ~Issues(commands[i + 1])
       THEN /\ execTimers' = execTimers \ {<<"next", i>>}
            /\ UNCHANGED <<issued, npc, sayVars>>
       ELSE /\ issued' = Append(issued, i + 1)
            /\ npc' = Applied(npc, commands[i + 1])
            /\ execTimers' = (execTimers \ {<<"next", i>>})
                                \cup {<<Schedules(commands[i + 1]), i + 1>>}
            /\ IF commands[i + 1].action = "SPEAK"
               THEN SayBegin(i + 1)
               ELSE UNCHANGED sayVars
    /\ lastCall' = "executeCommands"
    /\ UNCHANGED <<healthVars, gatherVars, registryVars, cmdCount, simTime, resourceVars, idVars,
                   commands>>

\* The checkPosition interval of command i runs: on arrival it clears itself and calls
\* waitForNextCommand.
PollFires(i) ==
    /\ <<"poll", i>> \in execTimers
    /\ Arrived(npc, commands[i].x)
    /\ execTimers' = (execTimers \ {<<"poll", i>>}) \cup {<<"next", i>>}
    /\ signalled' = signalled \cup {i}
    /\ lastCall' = "checkPosition"
    /\ UNCHANGED <<healthVars, gatherVars, registryVars, npc, cmdCount, simTime, sayVars, resourceVars,
                   idVars, commands, issued>>

\* The timeout of 3000, 2000 or 1000 ms set for command i fires and calls
\* waitForNextCommand.
DelayFires(i) ==
    /\ <<"delay", i>> \in execTimers
    /\ execTimers' = (execTimers \ {<<"delay", i>>}) \cup {<<"next", i>>}
    /\ signalled' = signalled \cup {i}
    /\ lastCall' = "setTimeout"
    /\ UNCHANGED <<healthVars, gatherVars, registryVars, npc, cmdCount, simTime, sayVars, resourceVars,
                   idVars, commands, issued>>

NextExec ==
    \/ \E i \in 0..Len(commands) : ExecuteNext(i)
    \/ \E i \in 1..Len(commands) : PollFires(i)
    \/ \E i \in 1..Len(commands) : DelayFires(i)
    \/ \E dt \in DeltaTimes, side \in {-1, 1} : Tick(dt, side) /\ UNCHANGED simTime
    \/ \E c \in SayCalls : SayResume(c) /\ UNCHANGED <<healthVars, registryVars, agentVars, lateVars>>
    \/ \E c \in SayCalls : TimeoutFires(c) /\ UNCHANGED <<healthVars, registryVars, agentVars, lateVars>>

SpecExec == InitExec /\ [][NextExec]_vars

\* C30: the commands of one list are issued to the agent in list order, each at most
\* once, and command i + 1 is issued only after the completion signal of command i: the
\* agent was seen within 1 unit of the commanded location, or the delay set for the
\* command had elapsed, and waitForNextCommand's fixed delay had elapsed after that.
C30_SequentialExecution ==
    [][/\ issued' # issued =>
             /\ issued' = Append(issued, Len(issued) + 1)
             /\ Len(issued) > 0 =>
                   /\ <<"next", Len(issued)>> \in execTimers
                   /\ <<"next", Len(issued)>> \notin execTimers'
                   /\ Schedules(commands[Len(issued)]) # "next" => Len(issued) \in signalled
       /\ \A i \in signalled' \ signalled :
             /\ i \in Range(issued)
             /\ ToLocation(commands[i]) =>
                   Distance(npc[TargetNPC].x, npc[TargetNPC].y, commands[i].x, 0)
                      < ArrivalTolerance
             /\ Schedules(commands[i]) = "delay" => <<"delay", i>> \in execTimers]_vars

\* The second command of a list has been issued after the agent walked to the location
\* of the first.
C30_Witness ==
    /\ Len(issued) = 2
    /\ ToLocation(commands[1])
    /\ 1 \in signalled
    /\ npc[TargetNPC].x = commands[1].x
    /\ commands[2].action = "SPEAK"

\* ---- the range of an attack ----

\* The distance between agents a and b in world w.
Between(w, a, b) == Distance(w[a].x, w[a].y, w[b].x, w[b].y)

\* C31: damage is applied to a combat target only when the attacker's distance to it, at
\* the moment of the attack, is at most attackRange: attack() called from farther away
\* changes nothing, and in the combat behaviour of the coming update of an agent the
\* target loses health only if the agent, where it then stands, is within attackRange;
\* from farther away the target's health and the agent's cooldown stay as they were.
C31_DamageOnlyInRange ==
    [](/\ \A a \in Agents, t \in Agents :
             (t # a /\ Between(npc, a, t) > AttackRange) => attack(npc, a, t) = npc
       /\ \A dt \in FineDeltaTimes, side \in {-1, 1}, a \in Range(entities) :
             \A wc \in {BeforeCombatStep(WorldBefore(a, dt, side), a, dt, Range(entities))} :
                (wc[a].inCombat /\ wc[a].combatTarget # Undefined) =>
                   \A wm \in {CombatMove(wc, a, dt, side, Range(entities))},
                      wx \in {CombatStep(wc, a, dt, side, Range(entities))} :
                      LET t == wc[a].combatTarget IN
                      /\ wx[t].health < wm[t].health => Between(wm, a, t) <= AttackRange
                      /\ Between(wm, a, t) > AttackRange =>
                            /\ wx[t].health = wm[t].health
                            /\ wx[a].sinceAttack = wm[a].sinceAttack)

\* An agent in combat, off cooldown and within attackRange of its target, whose circling
\* in the coming update takes it out of range before it attacks: the attack does nothing.
C31_Witness ==
    /\ lastCall = "update"
    /\ 1 \in Range(entities) /\ ~npc[1].isDead
    /\ npc[1].inCombat /\ npc[1].combatTarget = 2
    /\ \E dt \in DeltaTimes, side \in {-1, 1} :
          LET wc == BeforeCombatStep(WorldBefore(1, dt, side), 1, dt, Range(entities))
              wm == CombatMove(wc, 1, dt, side, Range(entities))
              wx == CombatStep(wc, 1, dt, side, Range(entities))
          IN /\ wc[1].inCombat /\ wc[1].combatTarget = 2
             /\ ~OnCooldown(wc[1])
             /\ Between(wc, 1, 2) <= AttackRange
             /\ Between(wm, 1, 2) > AttackRange
             /\ wx[2].health = wc[2].health

\* An agent in combat whose attack in the coming update lands from within attackRange.
C31_WitnessHit ==
    /\ lastCall = "update"
    /\ 1 \in Range(entities) /\ ~npc[1].isDead
    /\ npc[1].inCombat /\ npc[1].combatTarget = 2
    /\ \E dt \in DeltaTimes, side \in {-1, 1} :
          LET wc == BeforeCombatStep(WorldBefore(1, dt, side), 1, dt, Range(entities))
              wm == CombatMove(wc, 1, dt, side, Range(entities))
              wx == CombatStep(wc, 1, dt, side, Range(entities))
          IN /\ wc[1].inCombat /\ wc[1].combatTarget = 2
             /\ wx[2].health < wm[2].health
             /\ Between(wm, 1, 2) <= AttackRange

\* ---- the arrival of a commanded move ----

\* The deltaTimes of the frames, in ms: at the walking and at the running speed a step is
\* shorter than the arrival epsilon.
ArriveDeltaTimes == {10, 20}

\* The frames within which the agent is to have arrived.
MaxArriveTicks == 20

\* The positions commanded, and the wander target the constructor may have drawn.
ArrivePositions == {170, 176, 224, 230}

ArriveWanders == {<<>>, <<188>>, <<212>>}

\* NPCEntity.update of the living agent a, its position kept exact.
updateExact(w, a, dt, side, committed) ==
    IF w[a].isDead \/ ~ProcessesBehaviour(w[a]) THEN w
    ELSE LET w3 == BeforeCombatStep(w, a, dt, committed)
             w4 == CombatStep(w3, a, dt, side, committed)
         IN MoveStep(w4, a, dt, TRUE, <<w4[a].x>>, committed)

\* The agent TargetNPC, constructed at 200 with or without a wander started, has been
\* commanded MoveTo(position, shouldRun); the other agent stands far away.  commands holds
\* the command.
InitArrive ==
    /\ maxHealth = 1 /\ currentHealth = 1 /\ onDeathCallbacks = <<>>
    /\ invoked = [c \in CallbackIds |-> 0] /\ owed = [c \in CallbackIds |-> 0]
    /\ healthOp = <<"new", 0, 0>>
    /\ entities = <<1, 2>> /\ entitiesToAdd = <<>> /\ entitiesToRemove = <<>>
    /\ pc = "idle" /\ visited = {} /\ cleanupCalls = [e \in EntityIds |-> 0]
    /\ stagedSinceCommit = {} /\ addStagedBefore = {} /\ removeStagedBefore = {}
    /\ removeAskedInTick = {}
    /\ \E pos \in ArrivePositions, shouldRun \in BOOLEAN, wander \in ArriveWanders :
          /\ npc = MoveTo([a \in Agents |->
                              NewNPC(IF a = TargetNPC THEN 200 ELSE MaxX, IF a = TargetNPC THEN wander ELSE <<>>)],
                          TargetNPC, <<pos>>, Undefined, shouldRun)
          /\ commands = <<Command(IF shouldRun THEN "RUN" ELSE "MOVE", "LOCATION", pos,
                                  Undefined, "")>>
    /\ lastCall = "MoveTo"
    /\ cmdCount = 1
    /\ simTime = 0
    /\ SayParked
    /\ ResourceParked
    /\ IdsParked
    /\ GatherParked
    /\ issued = <<1>>
    /\ signalled = {}
    /\ execTimers = {}

\* EntityManager.update(deltaTime) over the two agents.
Frame(w, dt, side) ==
    updateExact(updateExact(Elapsed(w, dt), 1, dt, side, Range(entities)),
                2, dt, side, Range(entities))

\* A frame.
ArriveTick(dt, side) ==
    /\ npc' = Frame(npc, dt, side)
    /\ lastCall' = "update"
    /\ UNCHANGED <<healthVars, registryVars, cmdCount, simTime, sayVars, lateVars>>

NextArrive == \E dt \in ArriveDeltaTimes, side \in {-1, 1} : ArriveTick(dt, side)

SpecArrive == InitArrive /\ [][NextArrive]_vars

\* The agents after n frames of deltaTime dt; a frame that changes nothing is followed by
\* frames that change nothing.
RECURSIVE Walk(_, _, _)
Walk(w, dt, n) ==
    IF n = 0 THEN w
    ELSE LET next == Frame(w, dt, 1)
         IN IF next = w THEN w ELSE Walk(next, dt, n - 1)

\* In world w the agent has arrived at the commanded position and is idle.
ArrivedAt(w) ==
    /\ ~w[TargetNPC].isMoving
    /\ ~w[TargetNPC].isRunning
    /\ w[TargetNPC].targetPosition = <<>>
    /\ Distance(w[TargetNPC].x, w[TargetNPC].y, commands[1].x, 0) <= ArrivalEpsilon

\* C32: a living agent commanded MoveTo(position), with no combat, following, knockback or
\* agent within collision range, ticked with steps shorter than the arrival epsilon,
\* eventually arrives: after finitely many frames (MaxArriveTicks of them at either
\* deltaTime) it is at the position with isMoving and isRunning false and no move target,
\* and a further frame does not move it.
C32_EventuallyArrives ==
    \A dt \in ArriveDeltaTimes :
        /\ ArrivedAt(Walk(npc, dt, MaxArriveTicks))
        /\ Walk(npc, dt, MaxArriveTicks + 1)[TargetNPC].x
              = Walk(npc, dt, MaxArriveTicks)[TargetNPC].x

\* ---- cleanup of the removed entities ----

\* C33: every entity removed from the registry has cleanup() called exactly once, at the
\* commit that removes it, however often removeEntity was called for it before that commit.
C33_CleanupExactlyOnce ==
    [][\A e \in EntityIds :
          (e \in Range(entities) /\ e \notin Range(entities')) => cleanupCalls'[e] = 1]_vars

\* ---- death and health ----

\* C34: an agent is dead if and only if its currentHealth is 0, in every state reached
\* through takeDamage calls and ticks (and the other commands), and an agent that is dead
\* stays dead.
C34_DeadIffNoHealth ==
    /\ [](\A a \in Agents : npc[a].isDead <=> npc[a].health = 0)
    /\ [][\A a \in Agents : npc[a].isDead => npc'[a].isDead]_vars

\* An agent killed by takeDamage has been ticked since and is dead with no health.
C34_Witness ==
    /\ lastCall = "update"
    /\ \E a \in Agents :
          /\ npc[a].isDead /\ npc[a].health = 0 /\ npc[a].deathTime > 0
          /\ \E b \in Agents : ~npc[b].isDead /\ npc[b].health > 0 /\ npc[b].health < AgentMaxHealth

\* ---- the combat flag and the combat target ----

\* C35: in every reachable state an agent is in combat if and only if it has a combat
\* target.
C35_InCombatIffTarget ==
    [](\A a \in Agents : npc[a].inCombat <=> npc[a].combatTarget # Undefined)

\* After an update an agent fights a target that it has damaged and that has engaged it
\* in return from takeDamage.
C35_Witness ==
    /\ lastCall = "update"
    /\ \E a \in Agents, b \in Agents :
          /\ a # b
          /\ npc[a].inCombat /\ npc[a].combatTarget = b
          /\ npc[b].inCombat /\ npc[b].combatTarget = a
          /\ npc[b].health < AgentMaxHealth

\* ---- wood gathering ----

\* NPCEntity.WOOD_ZONE_POSITION, (-3, 0, 0).
WOOD_ZONE_POSITION == <<-300>>

\* The position of the tree.
TreePosition == <<200>>

\* The positions the two agents are created at.
GatherSpawns == <<0, 400>>

\* The waits for the tree and for the wood zone end at a distance below this (2).
GatherReach == 200

\* Iterations of the chopping loop.  The source runs progress from 0 in steps of 0.1 while
\* it is <= 1, which in floating point is 11 iterations, each of them the same flag check
\* and 300 ms timeout; the model makes this many of them.
ChopIterations == 11

\* damage(20) on the tree, in units of 20 health points.
ChopDamage == 1

\* Calls made on the agents from outside the tick and the loops.
MaxGatherCalls == 3

\* The loops that have not returned.
Running(ls, a) == {l \in DOMAIN ls : ls[l].agent = a /\ ls[l].pc # "done"}

InitGather ==
    /\ maxHealth = 1 /\ currentHealth = 1 /\ onDeathCallbacks = <<>>
    /\ invoked = [c \in CallbackIds |-> 0] /\ owed = [c \in CallbackIds |-> 0]
    /\ healthOp = <<"new", 0, 0>>
    /\ entities = <<1, 2>> /\ entitiesToAdd = <<>> /\ entitiesToRemove = <<>>
    /\ pc = "idle" /\ visited = {} /\ cleanupCalls = [e \in EntityIds |-> 0]
    /\ stagedSinceCommit = {} /\ addStagedBefore = {} /\ removeStagedBefore = {}
    /\ removeAskedInTick = {}
    /\ npc = [a \in Agents |-> NewNPC(GatherSpawns[a], <<>>)]
    /\ lastCall = "new"
    /\ cmdCount = 0
    /\ simTime = 0
    /\ SayParked
    /\ IdsParked
    /\ ExecParked
    /\ active = TRUE
    /\ resourceHealth \in 1..ResourceMaxHealth
    /\ respawnTime = RespawnDelay
    /\ respawnTimeout = Undefined
    /\ respawnTimers = {}
    /\ sinceZero = RespawnDelay
    /\ timeoutsSet = 0
    /\ cleanedUp = FALSE
    /\ isGatheringWood = [a \in Agents |-> FALSE]
    /\ loops = <<>>

\* The chopping loop begins an iteration when the flag is set; begun counts the iterations
\* begun so far, this one included.
ChopChecks(gathering, begun) == gathering

\* startGatheringWood returns at once when the flag is set.
MayStart(gathering) == ~gathering

\* startGatheringWood() up to its await of Say: the guard, the flag, and the loop that
\* is now suspended at the acknowledgment.
startGatheringWood(a) ==
    /\ cmdCount < MaxGatherCalls
    /\ cmdCount' = cmdCount + 1
    /\ lastCall' = "startGatheringWood"
    /\ IF MayStart(isGatheringWood[a])
       THEN /\ isGatheringWood' = [isGatheringWood EXCEPT ![a] = TRUE]
            /\ loops' = Append(loops, [agent |-> a, pc |-> "ack", progress |-> 0])
       ELSE UNCHANGED <<isGatheringWood, loops>>
    /\ UNCHANGED <<healthVars, registryVars, npc, simTime, sayVars, resourceVars, idVars,
                   execVars>>

\* The STOP command: Stop() and stopGatheringWood().
StopCommand(a) ==
    /\ cmdCount < MaxGatherCalls
    /\ cmdCount' = cmdCount + 1
    /\ lastCall' = "stopGatheringWood"
    /\ npc' = Stop(npc, a)
    /\ isGatheringWood' = [isGatheringWood EXCEPT ![a] = FALSE]
    /\ UNCHANGED <<healthVars, registryVars, simTime, sayVars, resourceVars, idVars,
                   execVars, loops>>

\* takeDamage(amount, attacker) with a fatal amount.
FatalDamage(a, attacker) ==
    /\ attacker # a
    /\ ~npc[a].isDead
    /\ cmdCount < MaxGatherCalls
    /\ cmdCount' = cmdCount + 1
    /\ lastCall' = "takeDamage"
    /\ npc' = takeDamage(npc, a, AgentMaxHealth, attacker)
    /\ UNCHANGED <<healthVars, registryVars, simTime, sayVars, lateVars>>

\* The head of the while loop of loop l: the flag, the trees with health above 0, and
\* MoveTo(treePosition).
WhileHead(l) ==
    LET a == loops[l].agent IN
    IF ~isGatheringWood[a]
    THEN npc' = npc /\ loops' = [loops EXCEPT ![l].pc = "done"]
    ELSE IF resourceHealth > 0
         THEN /\ npc' = MoveTo(npc, a, TreePosition, Undefined, FALSE)
              /\ loops' = [loops EXCEPT ![l].pc = "toTree"]
         ELSE /\ npc' = npc
              /\ loops' = [loops EXCEPT ![l].pc = "noTrees"]

\* The first iteration of the chopping loop of loop l.
ChopBegins(l) ==
    loops' = [loops EXCEPT ![l].pc = IF ChopChecks(isGatheringWood[loops[l].agent], 1)
                                     THEN "chop" ELSE "done",
                           ![l].progress = 1]

\* The Say that loop l awaits has settled: the acknowledgment is followed by the while
\* loop, 'No more trees to cut!' by stopGatheringWood and the return, a woodcutting
\* phrase by the chopping loop.
SayResolves(l) ==
    /\ l \in DOMAIN loops
    /\ loops[l].pc \in {"ack", "noTrees", "phrase"}
    /\ lastCall' = "Say"
    /\ CASE loops[l].pc = "ack" -> WhileHead(l) /\ UNCHANGED isGatheringWood
         [] loops[l].pc = "noTrees" ->
               /\ isGatheringWood' = [isGatheringWood EXCEPT ![loops[l].agent] = FALSE]
               /\ loops' = [loops EXCEPT ![l].pc = "done"]
               /\ UNCHANGED npc
         [] loops[l].pc = "phrase" -> ChopBegins(l) /\ UNCHANGED <<npc, isGatheringWood>>
    /\ UNCHANGED <<healthVars, registryVars, cmdCount, simTime, sayVars, resourceVars, idVars,
                   execVars>>

\* The checkDistance interval of loop l finds the agent within reach of the tree: the
\* flag is checked, a woodcutting phrase may be said, and the chopping loop begins.
TreeReached(l, phrase) ==
    /\ l \in DOMAIN loops
    /\ loops[l].pc = "toTree"
    /\ Distance(npc[loops[l].agent].x, npc[loops[l].agent].y, TreePosition[1], 0) < GatherReach
    /\ lastCall' = "checkDistance"
    /\ IF ~isGatheringWood[loops[l].agent]
       THEN loops' = [loops EXCEPT ![l].pc = "done"]
       ELSE IF phrase
            THEN loops' = [loops EXCEPT ![l].pc = "phrase"]
            ELSE ChopBegins(l)
    /\ UNCHANGED <<healthVars, registryVars, npc, cmdCount, simTime, sayVars, resourceVars,
                   idVars, execVars, isGatheringWood>>

\* The 300 ms timeout of an iteration of the chopping loop of loop l fires and the next
\* iteration begins.
ChopContinues(l) ==
    /\ l \in DOMAIN loops
    /\ loops[l].pc = "chop"
    /\ loops[l].progress < ChopIterations
    /\ lastCall' = "chop"
    /\ loops' = [loops EXCEPT
                    ![l].pc = IF ChopChecks(isGatheringWood[loops[l].agent],
                                            loops[l].progress + 1)
                              THEN "chop" ELSE "done",
                    ![l].progress = loops[l].progress + 1]
    /\ UNCHANGED <<healthVars, registryVars, npc, cmdCount, simTime, sayVars, resourceVars,
                   idVars, execVars, isGatheringWood>>

\* The timeout of the last iteration fires: the tree is damaged, then the flag is checked
\* and the agent sent to the wood zone.
ChopEnds(l) ==
    /\ l \in DOMAIN loops
    /\ loops[l].pc = "chop"
    /\ loops[l].progress = ChopIterations
    /\ lastCall' = "damage"
    /\ ResourceDamage(ChopDamage)
    /\ IF ~isGatheringWood[loops[l].agent]
       THEN npc' = npc /\ loops' = [loops EXCEPT ![l].pc = "done"]
       ELSE /\ npc' = MoveTo(npc, loops[l].agent, WOOD_ZONE_POSITION, Undefined, FALSE)
            /\ loops' = [loops EXCEPT ![l].pc = "toZone"]
    /\ UNCHANGED <<healthVars, registryVars, cmdCount, simTime, sayVars, idVars, execVars,
                   isGatheringWood>>

\* The checkDistance interval of loop l finds the agent within reach of the wood zone:
\* the flag is checked and the while loop goes round.
ZoneReached(l) ==
    /\ l \in DOMAIN loops
    /\ loops[l].pc = "toZone"
    /\ Distance(npc[loops[l].agent].x, npc[loops[l].agent].y, WOOD_ZONE_POSITION[1], 0)
          < GatherReach
    /\ lastCall' = "checkDistance"
    /\ WhileHead(l)
    /\ UNCHANGED <<healthVars, registryVars, cmdCount, simTime, sayVars, resourceVars, idVars,
                   execVars, isGatheringWood>>

\* EntityManager.update(deltaTime) with the two agents registered.
GatherTick(dt, side) ==
    LET committed == Range(entities)
        w1 == UpdateAll(Elapsed(npc, dt), entities, dt, side, committed)
    IN /\ pc = "idle"
       /\ \A a \in Agents : w1[a].x \in (-MaxX)..MaxX
       /\ npc' = w1
       /\ entities' = ProcessRemovals(entities,
                          entitiesToRemove \o RemovalRequests(w1, entities))
       /\ entitiesToRemove' = <<>>
       /\ lastCall' = "update"
       /\ UNCHANGED <<healthVars, sayVars, lateVars, entitiesToAdd, pc, visited, cleanupCalls,
                      stagedSinceCommit, addStagedBefore, removeStagedBefore,
                      removeAskedInTick, cmdCount, simTime>>

\* One gatherer: the commanded agent is started, stopped and killed; the other agent stands
\* by.
NextGather ==
    \/ \E a \in Commanded : startGatheringWood(a)
    \/ \E a \in Commanded : StopCommand(a)
    \/ \E a \in Commanded, attacker \in Agents : FatalDamage(a, attacker)
    \/ \E l \in DOMAIN loops : SayResolves(l)
    \/ \E l \in DOMAIN loops, phrase \in BOOLEAN : TreeReached(l, phrase)
    \/ \E l \in DOMAIN loops : ChopContinues(l)
    \/ \E l \in DOMAIN loops : ChopEnds(l)
    \/ \E l \in DOMAIN loops : ZoneReached(l)
    \/ \E dt \in DeltaTimes, side \in {-1, 1} : GatherTick(dt, side)

SpecGather == InitGather /\ [][NextGather]_vars

\* Several gatherers: both agents are started on the same tree.
NextGatherPair ==
    \/ \E a \in Agents : startGatheringWood(a)
    \/ \E l \in DOMAIN loops : SayResolves(l)
    \/ \E l \in DOMAIN loops, phrase \in BOOLEAN : TreeReached(l, phrase)
    \/ \E l \in DOMAIN loops : ChopContinues(l)
    \/ \E l \in DOMAIN loops : ChopEnds(l)
    \/ \E l \in DOMAIN loops : ZoneReached(l)
    \/ \E dt \in DeltaTimes, side \in {-1, 1} : GatherTick(dt, side)

SpecGatherPair == InitGather /\ [][NextGatherPair]_vars

\* C36: a dead agent applies no damage: the end of a chopping loop it had started before
\* dying leaves the health of the tree as it was, and its update leaves the health of every
\* other agent as it was.
C36_DeadAppliesNoDamage ==
    [][/\ \A l \in DOMAIN loops :
             (npc[loops[l].agent].isDead /\ ChopEnds(l)) => resourceHealth' = resourceHealth
       /\ \A a \in Agents, b \in Agents, dt \in DeltaTimes, side \in {-1, 1} :
             (npc[a].isDead /\ b # a) =>
                update(npc, a, dt, side, Range(entities))[b].health = npc[b].health]_vars

\* C37: no agent has two loops at work, that is, past the acknowledgment and the choice of a
\* tree, having called MoveTo and suspended on the way to the tree, at the tree or on the
\* way to the wood zone.
C37_AtMostOneLoop ==
    \A a \in Agents :
       Cardinality({l \in Running(loops, a) :
                       loops[l].pc \in {"toTree", "phrase", "chop", "toZone"}}) <= 1

\* C38: the damage of a chopping loop is applied to a tree whose health is above 0.
C38_DamagesLivingTreeOnly ==
    [][\A l \in DOMAIN loops : ChopEnds(l) => resourceHealth > 0]_vars

\* ---- pending respawns ----

\* C39: at most one respawn timeout of the resource is pending at any time, and no respawn
\* runs after cleanup().
C39_OneRespawnPending ==
    [][/\ Cardinality(respawnTimers') <= 1
       /\ \A t \in respawnTimers : RespawnFires(t) => ~cleanedUp]_vars

====
